---------------------------- MODULE Spec2Model ----------------------------
(***************************************************************************)
(* LitePCIe loopback latency tests.                                        *)
(*                                                                         *)
(* Part 1: pcie_latency_test of user/litepcie_latency_test_final.c: the    *)
(* single-threaded main loop that sends timestamped probes through the DMA *)
(* write buffers, keeps them in the circular array `pending`, and matches  *)
(* the buffers that come back by their sequence word.                      *)
(*                                                                         *)
(* Integers: the C code uses uint32_t / uint64_t.  Inside the bounds below *)
(* no counter comes near 2^32, so the arithmetic is written without the    *)
(* modulus; UINT64_MAX and the 32-bit marker do not fit TLC's integers and *)
(* are represented as described at their definitions.                      *)
(***************************************************************************)
EXTENDS Integers, Sequences, FiniteSets, TLC

(***************************************************************************)
(* Bounds of the model.                                                    *)
(***************************************************************************)
\* Size of the pending[] ring.  The source has 256 (line 34); the model
\* scales the ring down so that a full ring is reached within MaxIterations.
MAX_PENDING == 3
\* iterations (option -i) ranges over 1..MaxIterations.
MaxIterations == 3
\* get_time_us() ranges over 0..MaxTime.
MaxTime == 1
\* The transport hands out at most MaxReads read buffers in a run.
MaxReads == 3

(***************************************************************************)
(* Program constants.                                                      *)
(***************************************************************************)
\* #define MARKER_VALUE 0xCAFEBABE, as its two 16-bit halves 0xCAFE, 0xBABE.
MARKER_VALUE == <<51966, 47806>>
\* A first word that is not the marker (a cleared buffer).
OTHER_MARKER == <<0, 0>>
\* UINT64_MAX, the initial min_latency: (uint64_t)-1.
UINT64_MAX == -1
\* sizeof(uint32_t)
WORD == 4
\* packet_size (option -s): 8 is the minimum main() enforces (marker and
\* sequence only), 16 adds two payload words.
PacketSizes == {8, 16}
\* A null buffer pointer; a buffer is a one-element sequence <<words>>.
NULL == << >>

VARIABLES
    iterations,       \* argument: number of probes to send
    packet_size,      \* argument: bytes of each packet that are filled/verified
    keep_running,     \* sig_atomic_t keep_running
    pc,               \* position in pcie_latency_test: "top", "send", "recv", "done"
    pending,          \* struct latency_measurement pending[MAX_PENDING]
    pending_head,
    pending_tail,
    processed,        \* uint8_t processed[iterations]
    min_latency,
    max_latency,
    total_latency,
    successful,
    sequence,
    duplicates,
    sent,
    received,
    buf_wr,           \* local of the loop body: write buffer of this pass
    buf_rd,           \* local of the loop body: read buffer of this pass
    reader_sw_count,  \* dma.reader_sw_count, relative to the start of the loop
    writer_sw_count,  \* dma.writer_sw_count, relative to the start of the loop
    now,              \* the clock read by get_time_us()
    wire,             \* ideal loopback only: committed buffers not yet read back
    sentAt,           \* history: sentAt[s] = clock value when s was committed, -1 before
    matched,          \* history: sequences whose echo found its pending[] entry
    measured          \* history: sequences whose echo updated the latency statistics

vars == <<iterations, packet_size, keep_running, pc, pending, pending_head,
          pending_tail, processed, min_latency, max_latency, total_latency,
          successful, sequence, duplicates, sent, received, buf_wr, buf_rd,
          reader_sw_count, writer_sw_count, now, wire, sentAt, matched, measured>>

(***************************************************************************)
(* Part 2: the threaded test litepcie_dma_latency_test.c.  Its state is    *)
(* declared here because every action of the module leaves the other       *)
(* parts' variables unchanged; its definitions follow part 1.              *)
(***************************************************************************)
VARIABLES
    config,             \* test_config_t config, fixed after option parsing
    lt_keep_running,    \* static volatile int keep_running of this file
    stats_mutex,        \* owner of stats_mutex, or "free"
    dma_mutex,          \* owner of dma_mutex, or "free"
    lat_stats,          \* latency_stats_t stats
    latency_histogram,  \* uint64_t *latency_histogram (NULL when not allocated)
    histogram_overflow,
    lt_pc,              \* latency thread: position in latency_thread_func
    lt_caller,          \* latency thread: which loop called measure_dma_latency
    lt_i,               \* latency thread: i of the warmup loop
    iteration,          \* latency thread: uint32_t iteration
    warmup_done,        \* latency thread: int warmup_done
    timeout_count,      \* measure_dma_latency: int timeout_count
    latency_ns,         \* what measure_dma_latency returned to its caller
    xfer,               \* the buffers write_buf, verify_buf, read_buf
    m_errors,           \* measure_dma_latency: int errors of the last verify
    mon_pc,             \* monitor thread: position in monitor_thread_func
    mon_mean,           \* print_stats(0): the locals mean and stddev
    mon_out,            \* print_stats(0): the progress line last printed
    dma_pc,             \* DMA thread: position in dma_thread_func
    main_pc,            \* main: position from line 677 on
    final_out,          \* print_stats(1): the final report, "none" before
    recorded,           \* history: the latencies passed to update_stats, in order
    agg_at_call         \* history: the aggregator when measure_dma_latency was called

\* The aggregator: everything update_stats and stats.errors += write.
agg == <<lat_stats, latency_histogram, histogram_overflow>>

ltLocals == <<lt_pc, lt_caller, lt_i, iteration, warmup_done, timeout_count, latency_ns,
              xfer, m_errors>>

monLocals == <<mon_pc, mon_mean, mon_out>>

latVars == <<config, lt_keep_running, stats_mutex, dma_mutex, agg, ltLocals,
             monLocals, dma_pc, main_pc, final_out, recorded, agg_at_call>>

(***************************************************************************)
(* Part 3: the final reporting step of the three user-space variants,      *)
(* applied to the results a run can end with.                              *)
(***************************************************************************)
VARIABLES
    rep_variant,        \* which program reports: "final", "threaded", "simple"
    rep_latencies,      \* what the run measured, UINT64_MAX for a failed iteration
    rep_valid,          \* how many valid measurements the run counted
    rep_pc,             \* "run" before the report, "done" after it
    rep_out             \* what the reporting step computed

repVars == <<rep_variant, rep_latencies, rep_valid, rep_pc, rep_out>>

(***************************************************************************)
(* Part 4: the writer and reader threads of                                *)
(* litepcie_dma_test_optimized_v2.c with its pattern generator and         *)
(* verifier.                                                               *)
(***************************************************************************)
VARIABLES
    opt_config,         \* config: pattern_type, verify_data; main's
                        \* external_loopback
    global_seed,        \* the seed main drew before the threads
    opt_words,          \* 32-bit words per DMA buffer
    opt_keep_running,
    opt_stats,          \* stats: tx_buffers, rx_buffers, errors, dma_calls
    opt_dma_pc,         \* DMA thread: "loop", "count", "exit"
    wr_pc,              \* writer thread: "start", "loop", "copy", "exit"
    pattern,            \* the writer's pattern buffer
    rd_pc,              \* reader thread: "start", "loop", "exit"
    rd_seed,            \* the reader's local seed
    ring,               \* buffers written and not yet read, oldest first
    opt_clean,          \* history: every buffer so far was read back as written
    last_verify         \* history: the reader's last call of verify_pattern

optVars == <<opt_config, global_seed, opt_words, opt_keep_running, opt_stats,
             opt_dma_pc, wr_pc, pattern, rd_pc, rd_seed, ring, opt_clean, last_verify>>

(***************************************************************************)
(* Part 5: the measurement loop of litepcie_dma_latency_simple.c.          *)
(***************************************************************************)
VARIABLES
    sim_iterations,       \* iterations of main's loop
    sim_keep_running,
    sim_pc,               \* "loop", "wait_wr", "clear", "process", "done",
                          \* "reported"
    sim_i,                \* main's loop index
    sim_timeout,          \* timeout of measure_dma_latency
    sim_processed,        \* processed of measure_dma_latency
    sim_latencies,        \* latencies[0 .. i-1]
    sim_wr_acquired,      \* history: write buffers the transport handed out
    sim_rd_acquired,      \* history: read buffers the transport handed out
    sim_reader_sw_count,  \* dma.reader_sw_count as advanced by the program
    sim_writer_sw_count,  \* dma.writer_sw_count as advanced by the program
    sim_report            \* the statistics printed at the end and, as
                          \* history, the indexes of latencies[] they read

simVars == <<sim_iterations, sim_keep_running, sim_pc, sim_i, sim_timeout,
             sim_processed, sim_latencies, sim_wr_acquired, sim_rd_acquired,
             sim_reader_sw_count, sim_writer_sw_count, sim_report>>

(***************************************************************************)
(* Part 6: litepcie_latency_test of kernel/litepcie_latency.c.             *)
(***************************************************************************)
VARIABLES
    ker_pc,             \* "call", "loop", "returned"
    ker_lat,            \* *lat: iterations, min_ns, max_ns, avg_ns, total_ns
    ker_irq,            \* the CPU's interrupt state: "on" or "off"
    ker_flags,          \* flags of local_irq_save
    ker_i,              \* the loop index
    ker_acc,            \* the locals min_ns, max_ns, total_ns
    ker_ret,            \* the return value
    ker_entry           \* history: *lat and the interrupt state at the call

kerVars == <<ker_pc, ker_lat, ker_irq, ker_flags, ker_i, ker_acc, ker_ret,
             ker_entry>>

(***************************************************************************)
(* Part 7: the interrupt handler of macos_driverkit_sample/                *)
(* LitePCIeDriver.cpp.                                                     *)
(***************************************************************************)
VARIABLES
    drv_pc,             \* "idle", "dispatch0", "loop0", "dispatch1", "loop1"
    drv_status,         \* status read in InterruptOccurred
    sw_reader_idx,      \* dmaChannels[0].sw_reader_idx
    hw_writer_idx,      \* dmaChannels[0].hw_writer_idx
    sw_writer_idx,      \* dmaChannels[1].sw_writer_idx
    hw_reader_idx,      \* dmaChannels[1].hw_reader_idx
    counters            \* rxPackets, rxBytes, txPackets, txBytes

drvVars == <<drv_pc, drv_status, sw_reader_idx, hw_writer_idx, sw_writer_idx,
             hw_reader_idx, counters>>

\* While one part runs the other parts do not exist: their variables rest.
KerParked ==
    /\ ker_pc = 0 /\ ker_lat = 0 /\ ker_irq = 0 /\ ker_flags = 0 /\ ker_i = 0
    /\ ker_acc = 0 /\ ker_ret = 0 /\ ker_entry = 0

DrvParked ==
    /\ drv_pc = 0 /\ drv_status = 0 /\ sw_reader_idx = 0 /\ hw_writer_idx = 0
    /\ sw_writer_idx = 0 /\ hw_reader_idx = 0 /\ counters = 0

OptParked ==
    /\ opt_config = 0 /\ global_seed = 0 /\ opt_words = 0
    /\ opt_keep_running = 0 /\ opt_stats = 0 /\ opt_dma_pc = 0 /\ wr_pc = 0
    /\ pattern = 0
    /\ rd_pc = 0 /\ rd_seed = 0 /\ ring = 0 /\ opt_clean = 0
    /\ last_verify = 0

SimParked ==
    /\ sim_iterations = 0 /\ sim_keep_running = 0 /\ sim_pc = 0 /\ sim_i = 0
    /\ sim_timeout = 0 /\ sim_processed = 0 /\ sim_latencies = 0
    /\ sim_wr_acquired = 0 /\ sim_rd_acquired = 0
    /\ sim_reader_sw_count = 0 /\ sim_writer_sw_count = 0 /\ sim_report = 0

LatParked ==
    /\ config = 0 /\ lt_keep_running = 0 /\ stats_mutex = 0 /\ dma_mutex = 0
    /\ lat_stats = 0 /\ latency_histogram = 0 /\ histogram_overflow = 0
    /\ lt_pc = 0 /\ lt_caller = 0 /\ lt_i = 0 /\ iteration = 0 /\ warmup_done = 0
    /\ timeout_count = 0 /\ latency_ns = 0 /\ xfer = 0 /\ m_errors = 0
    /\ mon_pc = 0 /\ mon_mean = 0 /\ mon_out = 0 /\ dma_pc = 0 /\ main_pc = 0
    /\ final_out = 0 /\ recorded = 0 /\ agg_at_call = 0

RepParked ==
    /\ rep_variant = 0 /\ rep_latencies = 0 /\ rep_valid = 0 /\ rep_pc = 0
    /\ rep_out = 0

\* The variables that are not pcie_latency_test's.
notPcie == <<latVars, repVars, optVars, simVars, kerVars, drvVars>>

(***************************************************************************)
(* Pure parts of the loop body.                                            *)
(***************************************************************************)
\* Number of 32-bit words filled and verified: packet_size / sizeof(uint32_t).
NWords(psize) == psize \div WORD

\* The packet written into the write buffer (lines 125-132).
MakePacket(seq, psize) ==
    [marker |-> MARKER_VALUE,
     sequence |-> seq,
     data |-> [i \in 2..(NWords(psize) - 1) |-> seq + i]]

\* The integrity loop of lines 183-190.
PayloadValid(pkt, rx_sequence, psize) ==
    \A i \in 2..(NWords(psize) - 1) : pkt.data[i] = rx_sequence + i

\* next_tail == pending_head (lines 138-139): no room for another entry.
LedgerFull(head, tail) == (tail + 1) % MAX_PENDING = head

\* Number of entries between pending_head and pending_tail.
LedgerLen(head, tail) == (tail - head + MAX_PENDING) % MAX_PENDING

\* The entries between pending_head and pending_tail, in ring order.
RECURSIVE LedgerEntries(_, _, _)
LedgerEntries(pend, head, tail) ==
    IF head = tail THEN << >>
    ELSE <<pend[head]>> \o LedgerEntries(pend, (head + 1) % MAX_PENDING, tail)

\* LedgerInsert without the next_tail != pending_head test.
LedgerInsert_NoFullCheck(pend, head, tail, timestamp, seq) ==
    [pending |-> [pend EXCEPT ![tail] = [timestamp |-> timestamp,
                                         sequence |-> seq,
                                         marker |-> MARKER_VALUE]],
     tail |-> (tail + 1) % MAX_PENDING]

\* Store in pending queue (lines 137-144): the new pending[] and pending_tail.
LedgerInsert(pend, head, tail, timestamp, seq) ==
    IF (tail + 1) % MAX_PENDING # head
    THEN [pending |-> [pend EXCEPT ![tail] = [timestamp |-> timestamp,
                                              sequence |-> seq,
                                              marker |-> MARKER_VALUE]],
          tail |-> (tail + 1) % MAX_PENDING]
    ELSE [pending |-> pend, tail |-> tail]

\* FindPending that takes the oldest entry, as if echoes came back in order.
FindPending_Fifo(pend, idx, tail, rx_sequence) ==
    IF idx = tail THEN -1 ELSE idx

\* Find matching pending packet (lines 175-204): the index of the first entry
\* from idx up to pending_tail whose sequence is rx_sequence, or -1.
RECURSIVE FindPending(_, _, _, _)
FindPending(pend, idx, tail, rx_sequence) ==
    IF idx = tail THEN -1
    ELSE IF pend[idx].sequence = rx_sequence THEN idx
    ELSE FindPending(pend, (idx + 1) % MAX_PENDING, tail, rx_sequence)

\* IsOurPacket that accepts every buffer.
IsOurPacket_Any(pkt) == pkt.marker \in {MARKER_VALUE, OTHER_MARKER}

\* Check if this is one of our packets (line 163).
IsOurPacket(pkt) == pkt.marker = MARKER_VALUE

\* IsDuplicate that never consults processed[].
IsDuplicate_Never(proc, rx_sequence, iters) ==
    rx_sequence < iters /\ proc[rx_sequence] = 2

\* Check if this is a duplicate (line 168).
IsDuplicate(proc, rx_sequence, iters) ==
    rx_sequence < iters /\ proc[rx_sequence] = 1

\* a < b on uint64_t, UINT64_MAX being written -1.
U64Less(a, b) == a # UINT64_MAX /\ (b = UINT64_MAX \/ a < b)

\* Lines 193-194.
NewMin(latency, cur) == IF U64Less(latency, cur) THEN latency ELSE cur
NewMax(latency, cur) == IF U64Less(cur, latency) THEN latency ELSE cur

\* MaySend that goes on sending past the iteration count.
MaySend_Always == TRUE

\* Send packets if we haven't sent all iterations yet (line 118).
MaySend == sent < iterations

\* The loop condition of line 110.
LoopCond == (sent < iterations \/ successful < sent) /\ keep_running = 1

(***************************************************************************)
(* The buffers the transport may hand back.                                *)
(***************************************************************************)
RxSequences == 0..MaxIterations

\* pkt with word k of the payload changed.
Corrupt(pkt, k) == [pkt EXCEPT !.data[k] = @ + 1]

RxPackets(psize) ==
    LET good == {[MakePacket(s, psize) EXCEPT !.marker = m] :
                   s \in RxSequences, m \in {MARKER_VALUE, OTHER_MARKER}}
    IN good \cup {Corrupt(p, k) : p \in good, k \in 2..(NWords(psize) - 1)}

(***************************************************************************)
(* Initial state: lines 55-64, 73, 78 and 106-107, after the flush loop.   *)
(***************************************************************************)
Init ==
    /\ iterations \in 1..MaxIterations
    /\ packet_size \in PacketSizes
    /\ keep_running = 1
    /\ pc = "top"
    /\ pending = [i \in 0..(MAX_PENDING - 1) |->
                    [timestamp |-> 0, sequence |-> 0, marker |-> OTHER_MARKER]]
    /\ pending_head = 0
    /\ pending_tail = 0
    /\ processed = [s \in 0..(iterations - 1) |-> 0]
    /\ min_latency = UINT64_MAX
    /\ max_latency = 0
    /\ total_latency = 0
    /\ successful = 0
    /\ sequence = 0
    /\ duplicates = 0
    /\ sent = 0
    /\ received = 0
    /\ buf_wr = NULL
    /\ buf_rd = NULL
    /\ reader_sw_count = 0
    /\ writer_sw_count = 0
    /\ now = 0
    /\ wire = << >>
    /\ sentAt = [s \in 0..(iterations - 1) |-> -1]
    /\ matched = {}
    /\ measured = {}
    /\ LatParked
    /\ RepParked
    /\ OptParked
    /\ SimParked
    /\ KerParked
    /\ DrvParked

\* pcie_latency_test at rest, while another part runs.
PcieParked ==
    /\ iterations = 0 /\ packet_size = 0 /\ keep_running = 0 /\ pc = 0
    /\ pending = 0 /\ pending_head = 0 /\ pending_tail = 0 /\ processed = 0
    /\ min_latency = 0 /\ max_latency = 0 /\ total_latency = 0
    /\ successful = 0 /\ sequence = 0 /\ duplicates = 0 /\ sent = 0
    /\ received = 0 /\ buf_wr = 0 /\ buf_rd = 0 /\ reader_sw_count = 0
    /\ writer_sw_count = 0 /\ now = 0 /\ wire = 0 /\ sentAt = 0
    /\ matched = 0 /\ measured = 0

(***************************************************************************)
(* Line 110-112: the loop test; entering the body resets both pointers.    *)
(***************************************************************************)
LoopTest ==
    /\ pc = "top"
    /\ pc' = IF LoopCond THEN "send" ELSE "done"
    /\ buf_wr' = NULL
    /\ buf_rd' = NULL
    /\ UNCHANGED <<iterations, packet_size, keep_running, pending, pending_head,
                   pending_tail, processed, min_latency, max_latency,
                   total_latency, successful, sequence, duplicates, sent,
                   received, reader_sw_count, writer_sw_count, now, wire,
                   sentAt, matched, measured>>
    /\ UNCHANGED notPcie

(***************************************************************************)
(* Lines 117-155: the send half of the body.  avail: whether               *)
(* litepcie_dma_next_write_buffer returned a buffer.                       *)
(***************************************************************************)
SendBody(avail) ==
    /\ pc = "send"
    /\ pc' = "recv"
    /\ IF MaySend /\ avail
       THEN LET ins == LedgerInsert(pending, pending_head, pending_tail, now, sequence)
            IN /\ buf_wr' = <<MakePacket(sequence, packet_size)>>
               /\ pending' = ins.pending
               /\ pending_tail' = ins.tail
               /\ reader_sw_count' = reader_sw_count + 1
               /\ sequence' = sequence + 1
               /\ sent' = sent + 1
               /\ sentAt' = [sentAt EXCEPT ![sequence] = now]
       ELSE UNCHANGED <<buf_wr, pending, pending_tail, reader_sw_count,
                        sequence, sent, sentAt>>
    /\ UNCHANGED <<iterations, packet_size, keep_running, pending_head,
                   processed, min_latency, max_latency, total_latency,
                   successful, duplicates, received, buf_rd, writer_sw_count,
                   now, matched, measured>>
    /\ UNCHANGED notPcie

(***************************************************************************)
(* Lines 157-222: the receive half of the body.  buf: what                 *)
(* litepcie_dma_next_read_buffer returned.                                 *)
(***************************************************************************)
RecvBody(buf) ==
    /\ pc = "recv"
    /\ pc' = "top"
    /\ buf_rd' = buf
    /\ IF buf = NULL
       THEN UNCHANGED <<processed, min_latency, max_latency, total_latency,
                        successful, duplicates, received, writer_sw_count,
                        matched, measured>>
       ELSE
         LET data == buf[1]
             rx_sequence == data.sequence
             rx_time == now
         IN
         /\ writer_sw_count' = writer_sw_count + 1
         /\ IF ~IsOurPacket(data)
            THEN UNCHANGED <<processed, min_latency, max_latency, total_latency,
                             successful, duplicates, received, matched, measured>>
            ELSE
              /\ received' = received + 1
              /\ IF IsDuplicate(processed, rx_sequence, iterations)
                 THEN /\ duplicates' = duplicates + 1
                      /\ UNCHANGED <<processed, min_latency, max_latency,
                                     total_latency, successful, matched, measured>>
                 ELSE IF rx_sequence < iterations
                 THEN LET idx == FindPending(pending, pending_head, pending_tail,
                                             rx_sequence)
                          found == idx # -1
                          valid == found /\ PayloadValid(data, rx_sequence, packet_size)
                          latency == rx_time - pending[idx].timestamp
                      IN /\ processed' = [processed EXCEPT ![rx_sequence] = 1]
                         /\ matched' = IF found THEN matched \cup {rx_sequence}
                                       ELSE matched
                         /\ IF valid
                            THEN /\ min_latency' = NewMin(latency, min_latency)
                                 /\ max_latency' = NewMax(latency, max_latency)
                                 /\ total_latency' = total_latency + latency
                                 /\ successful' = successful + 1
                                 /\ measured' = measured \cup {rx_sequence}
                            ELSE UNCHANGED <<min_latency, max_latency,
                                             total_latency, successful, measured>>
                         /\ UNCHANGED duplicates
                 ELSE UNCHANGED <<processed, min_latency, max_latency,
                                  total_latency, successful, duplicates,
                                  matched, measured>>
    /\ UNCHANGED <<iterations, packet_size, keep_running, pending, pending_head,
                   pending_tail, sequence, sent, buf_wr, reader_sw_count, now,
                   sentAt>>
    /\ UNCHANGED notPcie

(***************************************************************************)
(* Any transport: buffers may be unavailable, and what is read back may be *)
(* any packet (late, early, repeated, corrupted, foreign) or nothing.      *)
(***************************************************************************)
Send == (\E avail \in BOOLEAN : SendBody(avail)) /\ UNCHANGED wire

Recv ==
    /\ \E buf \in {NULL} \cup
                  (IF writer_sw_count < MaxReads
                   THEN {<<p>> : p \in RxPackets(packet_size)} ELSE {}) :
          RecvBody(buf)
    /\ UNCHANGED wire

\* The clock advances.
Tick ==
    /\ now < MaxTime
    /\ now' = now + 1
    /\ UNCHANGED <<iterations, packet_size, keep_running, pc, pending,
                   pending_head, pending_tail, processed, min_latency,
                   max_latency, total_latency, successful, sequence, duplicates,
                   sent, received, buf_wr, buf_rd, reader_sw_count,
                   writer_sw_count, wire, sentAt, matched, measured>>
    /\ UNCHANGED notPcie

\* intHandler (lines 37-39), on SIGINT.
intHandler ==
    /\ keep_running = 1
    /\ keep_running' = 0
    /\ UNCHANGED <<iterations, packet_size, pc, pending, pending_head,
                   pending_tail, processed, min_latency, max_latency,
                   total_latency, successful, sequence, duplicates, sent,
                   received, buf_wr, buf_rd, reader_sw_count, writer_sw_count,
                   now, wire, sentAt, matched, measured>>
    /\ UNCHANGED notPcie

Next == LoopTest \/ Send \/ Recv \/ Tick \/ intHandler

Spec == Init /\ [][Next]_vars

\* The program keeps executing its loop; the transport and the signal owe nothing.
FairSpec == Spec /\ WF_vars(LoopTest \/ Send \/ Recv)

(***************************************************************************)
(* Ideal transport: a write buffer is always available, and every          *)
(* committed buffer is read back unmodified, in order, in the same pass.   *)
(***************************************************************************)
IdealSend ==
    /\ SendBody(TRUE)
    /\ wire' = IF sent < iterations
               THEN Append(wire, MakePacket(sequence, packet_size))
               ELSE wire

IdealRecv ==
    IF wire = << >>
    THEN RecvBody(NULL) /\ UNCHANGED wire
    ELSE RecvBody(<<Head(wire)>>) /\ wire' = Tail(wire)

IdealNext == LoopTest \/ IdealSend \/ IdealRecv \/ Tick

IdealSpec == Init /\ [][IdealNext]_vars

IdealFairSpec == IdealSpec /\ WF_vars(LoopTest \/ IdealSend \/ IdealRecv)

(***************************************************************************)
(* Properties of pcie_latency_test.                                        *)
(***************************************************************************)
\* The latency statistics of lines 59-62.
stats == <<min_latency, max_latency, total_latency, successful>>

\* The step handles a read buffer carrying our marker and sequence s.
EchoOf(s) ==
    /\ pc = "recv"
    /\ buf_rd' # NULL
    /\ buf_rd'[1].marker = MARKER_VALUE
    /\ buf_rd'[1].sequence = s

\* C1: the producer is throttled by a full ledger: a step commits a write
\* buffer (sent, sequence and reader_sw_count advance) only when the ledger
\* has room, and the committed probe is then in the ledger with the
\* timestamp of the send.
C1_Throttled ==
    [][sent' # sent =>
         /\ ~LedgerFull(pending_head, pending_tail)
         /\ \E e \in {LedgerEntries(pending', pending_head', pending_tail')[i] :
                        i \in 1..LedgerLen(pending_head', pending_tail')} :
               e.sequence = sequence /\ e.timestamp = now]_vars

\* C2: the ledger never holds more than MAX_PENDING entries, and a send on a
\* full ledger leaves the stored entries as they were (nothing overwritten,
\* nothing evicted).
C2_LedgerBounded ==
    /\ [](/\ pending_head \in 0..(MAX_PENDING - 1)
          /\ pending_tail \in 0..(MAX_PENDING - 1)
          /\ LedgerLen(pending_head, pending_tail) <= MAX_PENDING)
    /\ [][(pc = "send" /\ LedgerFull(pending_head, pending_tail)) =>
            LedgerEntries(pending', pending_head', pending_tail')
              = LedgerEntries(pending, pending_head, pending_tail)]_vars

\* An insert was attempted on a full ledger: more probes sent than stored.
C2_Witness ==
    /\ LedgerFull(pending_head, pending_tail)
    /\ sent > LedgerLen(pending_head, pending_tail)

\* C3: an echo that matches a ledger entry removes it: the ledger length
\* drops by one.
C3_MatchRemoves ==
    [][\A s \in 0..(MaxIterations - 1) :
         (EchoOf(s) /\ matched' # matched) =>
            LedgerLen(pending_head', pending_tail')
              = LedgerLen(pending_head, pending_tail) - 1]_vars

\* C4: once an echo of sequence s has updated the latency statistics, every
\* later echo of s increments duplicates and leaves the statistics alone; so
\* at most one echo of s updates them.
C4_AtMostOnce ==
    [][\A s \in RxSequences :
         EchoOf(s) =>
            /\ s \in measured =>
                  (duplicates' = duplicates + 1 /\ stats' = stats)
            /\ stats' # stats =>
                  (s \notin measured /\ measured' = measured \cup {s}
                   /\ duplicates' = duplicates)]_vars

\* A second echo of a measured sequence has just been counted as a duplicate.
C4_Witness ==
    /\ pc = "top"
    /\ buf_rd # NULL
    /\ buf_rd[1].marker = MARKER_VALUE
    /\ buf_rd[1].sequence \in measured
    /\ successful = 1
    /\ duplicates = 1
    /\ received = 2

\* C5: once all iterations have been sent the main loop eventually exits,
\* whatever the transport does and without the signal.
C5_EventuallyStops == (sent = iterations) ~> (pc = "done")

\* C6: on the ideal transport the run terminates with every probe measured
\* and no duplicate.
C6_IdealRunCompletes ==
    <>(pc = "done" /\ successful = iterations /\ sent = iterations
       /\ duplicates = 0)

\* C7: when the run stops every committed probe is accounted for exactly
\* once: measured, or still outstanding in the ledger (lost); the code has no
\* expiry, so no probe is timed out.
C7_Accounted ==
    pc = "done" => sent = successful + LedgerLen(pending_head, pending_tail)

\* C8: the latency recorded for an echo of s is the receive time minus the
\* time at which s itself was sent, in whatever order echoes arrive.
C8_OwnTimestamp ==
    [][\A s \in 0..(MaxIterations - 1) :
         (EchoOf(s) /\ successful' = successful + 1) =>
            /\ sentAt[s] # -1
            /\ total_latency' = total_latency + (now - sentAt[s])
            /\ min_latency' = NewMin(now - sentAt[s], min_latency)
            /\ max_latency' = NewMax(now - sentAt[s], max_latency)]_vars

\* Probe 1 was measured before probe 0, and the two were sent at different
\* times.
C8_Witness ==
    /\ iterations >= 2
    /\ 1 \in measured
    /\ 0 \notin measured
    /\ sentAt[0] # sentAt[1]

\* The step handles a read buffer whose first word is not the marker.
ForeignBuffer ==
    /\ pc = "recv"
    /\ buf_rd' # NULL
    /\ buf_rd'[1].marker # MARKER_VALUE

C10_GenuineAfterNoise ==
    [][\A s \in 0..(MaxIterations - 1) :
         (/\ pc = "recv"
          /\ buf_rd' = <<MakePacket(s, packet_size)>>
          /\ s < sent
          /\ FindPending(pending, pending_head, pending_tail, s) # -1
          /\ s \notin matched) =>
            (successful' = successful + 1 /\ duplicates' = duplicates)]_vars

\* C32: sequence numbers are assigned in strictly increasing order, one per
\* probe sent (sequence = sent), and the counters satisfy
\* successful <= sent <= iterations and successful + duplicates <= received.
C32_CountersOrdered ==
    /\ [](/\ sequence = sent
          /\ successful <= sent
          /\ sent <= iterations
          /\ successful + duplicates <= received)
    /\ [][sequence' # sequence =>
            /\ sequence' = sequence + 1
            /\ buf_wr' # NULL
            /\ buf_wr'[1].sequence = sequence]_vars

\* The run is over with every probe sent, one of them measured, one echo a
\* duplicate, and one echo of our marker that was neither.
C32_Witness ==
    /\ pc = "done"
    /\ sent = MaxIterations
    /\ sequence = MaxIterations
    /\ successful >= 1
    /\ duplicates >= 1
    /\ received > successful + duplicates

(***************************************************************************)
(* Part 2: litepcie_dma_latency_test.c, the threaded latency test.         *)
(*                                                                         *)
(* Threads: main (from line 677), the DMA thread, the latency thread and,  *)
(* in continuous mode, the monitor thread.  A step is one stretch of code  *)
(* between two points where another thread can matter: a mutex operation,  *)
(* a read or write of shared data outside a mutex, a transport call.       *)
(*                                                                         *)
(* Numbers.  A 32-bit word is the pair <<high half, low half>>.  A double  *)
(* holding microseconds is held in units of half a microsecond, latencies  *)
(* being multiples of 500 ns: latency_ns / 1000.0 is then exact, and       *)
(* (int)latency_us truncates as in the source.                             *)
(***************************************************************************)
\* Bounds of part 2.
\* HISTOGRAM_BUCKETS is 1000 in the source (line 45); the model scales it.
HISTOGRAM_BUCKETS == 2
\* The retry limit of lines 269 and 294 is 1000 in the source; scaled.
RETRY_LIMIT == 1
\* measure_dma_latency is called at most LatMaxCalls times in a run.
LatMaxCalls == 2

\* Program constants of part 2.
PATTERN_SEQ == 0
PATTERN_RANDOM == 1
PATTERN_FIXED == 2
PATTERN_WALKING == 3
\* Nanoseconds in one unit of a microsecond value (half a microsecond).
HALF_US == 500
\* .min_us = 1e9 (line 81), in half microseconds.
MIN_US_INIT == 2000000000
\* 1 << 16
HALF_WORD == 65536

\* config.transfer_size (option -s): one word.
LatTransferSizes == {4}
\* config.iterations (option -n).
LatIterations == {1, 2}
\* config.warmup (option -w).
LatWarmups == {0, 1}
\* config.pattern_type (option -p).
LatPatternTypes == {PATTERN_SEQ}
\* What end - start can be: a latency of the first bucket and one beyond
\* the histogram.
LatLatencies == {HALF_US, (2 * HISTOGRAM_BUCKETS + 1) * HALF_US}

\* 1 << n as a word, n in 0..31.
RECURSIVE Pow2(_)
Pow2(n) == IF n = 0 THEN 1 ELSE 2 * Pow2(n - 1)
OneShl(n) == IF n < 16 THEN <<0, Pow2(n)>> ELSE <<Pow2(n - 16), 0>>

\* generate_pattern (lines 140-168); i counts from 0 in the source, the
\* buffer is the sequence of its words.  rnd: the values rand() returns.
GeneratePattern(type, count, iter, rnd) ==
    [k \in 1..count |->
        LET i == k - 1 IN
        CASE type = PATTERN_SEQ -> <<iter % HALF_WORD, i % HALF_WORD>>
          [] type = PATTERN_RANDOM -> rnd[k]
          [] type = PATTERN_FIXED -> <<57005, 48879>>
          [] type = PATTERN_WALKING -> OneShl(i % 32)]

\* verify_pattern (lines 171-186): the number of differing words.
VerifyPattern(buffer, expected, count) ==
    Cardinality({k \in 1..count : buffer[k] # expected[k]})

\* A word that differs from w.
CorruptWord(w) == <<w[1], (w[2] + 1) % HALF_WORD>>

\* What the loopback can return for a buffer: the buffer, or the buffer with
\* any of its words changed.
ReadBacks(buf) ==
    {[k \in 1..Len(buf) |-> IF k \in S THEN CorruptWord(buf[k]) ELSE buf[k]] :
        S \in SUBSET (1..Len(buf))}

\* double latency_us = latency_ns / 1000.0 (line 190), in half microseconds.
LatencyUs(ns) == ns \div HALF_US

\* int bucket = (int)latency_us (line 203).
Bucket(us) == (us * HALF_US) \div 1000

\* Lines 194-199 of update_stats.
StatsAccumulate(st, ns) ==
    LET latency_us == LatencyUs(ns) IN
    [st EXCEPT !.count = @ + 1,
               !.sum_us = @ + latency_us,
               !.sum_sq_us = @ + latency_us * latency_us,
               !.min_us = IF latency_us < @ THEN latency_us ELSE @,
               !.max_us = IF latency_us > @ THEN latency_us ELSE @]

\* HistogramUpdate that drops what does not fit the buckets.
HistogramUpdate_NoOverflow(cfg, hist, overflow, ns) ==
    LET bucket == Bucket(LatencyUs(ns)) IN
    IF cfg.histogram = 1 /\ hist # NULL /\ bucket < HISTOGRAM_BUCKETS
    THEN [hist |-> [hist EXCEPT ![bucket + 1] = @ + 1], overflow |-> overflow]
    ELSE [hist |-> hist, overflow |-> overflow]

\* Lines 201-209 of update_stats: the new histogram and histogram_overflow.
\* Bucket b of the source is element b + 1 of the sequence.
HistogramUpdate(cfg, hist, overflow, ns) ==
    LET bucket == Bucket(LatencyUs(ns)) IN
    IF cfg.histogram = 1 /\ hist # NULL
    THEN IF bucket < HISTOGRAM_BUCKETS
         THEN [hist |-> [hist EXCEPT ![bucket + 1] = @ + 1], overflow |-> overflow]
         ELSE [hist |-> hist, overflow |-> overflow + 1]
    ELSE [hist |-> hist, overflow |-> overflow]

\* Lines 211-218 of update_stats.  Element i of recent_samples is element
\* i + 1 of the sequence.
SampleStore(cfg, st, ns) ==
    IF st.recent_samples # NULL /\ st.sample_count < cfg.iterations
    THEN [st EXCEPT !.recent_samples[st.sample_index + 1] = ns,
                    !.sample_index = (@ + 1) % cfg.iterations,
                    !.sample_count = IF @ < cfg.iterations THEN @ + 1 ELSE @]
    ELSE st

\* One pass of the inner loop of lines 403-411: position i against j..count-1.
RECURSIVE SortInner(_, _, _)
SortInner(a, i, j) ==
    IF j > Len(a) THEN a
    ELSE IF a[i] > a[j]
         THEN SortInner([a EXCEPT ![i] = a[j], ![j] = a[i]], i, j + 1)
         ELSE SortInner(a, i, j + 1)

RECURSIVE SortFrom(_, _)
SortFrom(a, i) ==
    IF i >= Len(a) THEN a ELSE SortFrom(SortInner(a, i, i + 1), i + 1)

\* SortSamples that orders the other way round.
RECURSIVE SortDown(_, _)
SortDown(a, i) ==
    IF i >= Len(a) THEN a
    ELSE LET m == CHOOSE k \in i..Len(a) : \A l \in i..Len(a) : a[k] >= a[l]
         IN SortDown([a EXCEPT ![i] = a[m], ![m] = a[i]], i + 1)
SortSamples_Descending(a) == SortDown(a, 1)

\* Sort samples (lines 402-411).
SortSamples(a) == SortFrom(a, 1)

\* int index = (int)(p * count / 100.0); if (index >= count) index = count - 1
\* (lines 413-414).  p is given in tenths of a percent (999 for 99.9).
PercentileIndex(p10, count) ==
    LET index == (p10 * count) \div 1000
    IN IF index >= count THEN count - 1 ELSE index

\* calculate_percentile (lines 380-419) on the aggregator st: the result in
\* nanoseconds (the source divides by 1000.0 for printing), 0 for no data
\* and 0 when malloc gives no room for the copy (ok is FALSE).
CalculatePercentile(st, p10, ok) ==
    IF st.recent_samples = NULL \/ st.sample_count = 0
    THEN 0
    ELSE IF ~ok
    THEN 0
    ELSE LET count == st.sample_count
             sorted == SortSamples(SubSeq(st.recent_samples, 1, count))
         IN sorted[PercentileIndex(p10, count) + 1]

\* The percentiles print_stats asks for (lines 453-457), in tenths of a percent.
Percentiles == <<500, 900, 950, 990, 999>>

\* A quotient the program computes, kept as numerator and divisor.
Quot(n, d) == [num |-> n, den |-> d]

\* The calls of calculate_percentile in which malloc fails: any of them.
MallocFailures == SUBSET (1..Len(Percentiles))

\* mean and stddev of print_stats (lines 432-433): the two quotients by
\* stats.count.
MeanOf(st) == {Quot(st.sum_us, st.count), Quot(st.sum_sq_us, st.count)}

(***************************************************************************)
(* Initial state of part 2: main at line 677, after the option parsing,    *)
(* the allocations of lines 613-627 and litepcie_dma_init succeeded.       *)
(***************************************************************************)
LatInit ==
    /\ config \in [transfer_size : LatTransferSizes,
                   iterations : LatIterations,
                   warmup : LatWarmups,
                   pattern_type : LatPatternTypes,
                   verify_data : {0, 1},
                   continuous : {0, 1},
                   histogram : {0, 1}]
    /\ lt_keep_running = 1
    /\ stats_mutex = "free"
    /\ dma_mutex = "free"
    /\ lat_stats = [count |-> 0, errors |-> 0, min_us |-> MIN_US_INIT,
                    max_us |-> 0, sum_us |-> 0, sum_sq_us |-> 0,
                    recent_samples |-> [i \in 1..config.iterations |-> 0],
                    sample_index |-> 0, sample_count |-> 0]
    /\ latency_histogram = IF config.histogram = 1
                           THEN [b \in 1..HISTOGRAM_BUCKETS |-> 0] ELSE NULL
    /\ histogram_overflow = 0
    /\ lt_pc = "off"
    /\ lt_caller = "none"
    /\ lt_i = 0
    /\ iteration = 0
    /\ warmup_done = 0
    /\ timeout_count = 0
    /\ latency_ns = 0
    /\ xfer = [b \in {"write_buf", "verify_buf", "read_buf"} |->
                 [k \in 1..(config.transfer_size \div WORD) |-> <<0, 0>>]]
    /\ m_errors = 0
    /\ mon_pc = "off"
    /\ mon_mean = {}
    /\ mon_out = [printed |-> FALSE]
    /\ dma_pc = "off"
    /\ main_pc = "create_dma"
    /\ final_out = [printed |-> FALSE, mean |-> {}]
    /\ recorded = << >>
    /\ agg_at_call = agg
    /\ PcieParked
    /\ RepParked
    /\ OptParked
    /\ SimParked
    /\ KerParked
    /\ DrvParked

\* The other parts stay at rest while part 2 runs.
notLat == <<vars, repVars, optVars, simVars, kerVars, drvVars>>
mainLocals == <<main_pc, final_out>>
history == <<recorded, agg_at_call>>

(***************************************************************************)
(* main, lines 677-712.                                                    *)
(***************************************************************************)
\* pthread_create(&dma_thread, ...) (lines 678-681); ok: the thread was
\* created.  Otherwise goto cleanup.
MainCreateDma(ok) ==
    /\ main_pc = "create_dma"
    /\ IF ok
       THEN /\ dma_pc' = "test"
            /\ main_pc' = "create_lat"
       ELSE /\ main_pc' = "aborted"
            /\ UNCHANGED dma_pc
    /\ UNCHANGED <<config, lt_keep_running, stats_mutex, dma_mutex, agg,
                   ltLocals, monLocals, final_out, history, notLat>>

\* pthread_create(&latency_thread, ...) (lines 684-689).  Otherwise
\* keep_running = 0 and the DMA thread is joined.
MainCreateLatency(ok) ==
    /\ main_pc = "create_lat"
    /\ IF ok
       THEN /\ lt_pc' = "alloc"
            /\ main_pc' = IF config.continuous = 1 THEN "create_mon" ELSE "join_lat"
            /\ UNCHANGED lt_keep_running
       ELSE /\ lt_keep_running' = 0
            /\ main_pc' = "abort_join"
            /\ UNCHANGED lt_pc
    /\ UNCHANGED <<config, stats_mutex, dma_mutex, agg,
                   lt_caller, lt_i, iteration, warmup_done, timeout_count,
                   latency_ns, xfer, m_errors, monLocals, dma_pc, final_out,
                   history, notLat>>

\* if (config.continuous) pthread_create(&monitor_thread, ...) (lines
\* 692-700).  Otherwise keep_running = 0 and the two threads are joined.
MainCreateMonitor(ok) ==
    /\ main_pc = "create_mon"
    /\ IF ok
       THEN /\ mon_pc' = "sleep"
            /\ main_pc' = "join_lat"
            /\ UNCHANGED lt_keep_running
       ELSE /\ lt_keep_running' = 0
            /\ main_pc' = "abort_join"
            /\ UNCHANGED mon_pc
    /\ UNCHANGED <<config, stats_mutex, dma_mutex, agg,
                   ltLocals, mon_mean, mon_out, dma_pc, final_out, history,
                   notLat>>

\* The pthread_join calls of lines 687 and 696-697, then goto cleanup.
MainAbortJoin ==
    /\ main_pc = "abort_join"
    /\ dma_pc = "exit"
    /\ lt_pc \in {"off", "exit"}
    /\ main_pc' = "aborted"
    /\ UNCHANGED <<config, lt_keep_running, stats_mutex, dma_mutex, agg,
                   ltLocals, monLocals, dma_pc, final_out, history, notLat>>

\* pthread_join(latency_thread); keep_running = 0 (lines 703-704).
MainJoinLatency ==
    /\ main_pc = "join_lat"
    /\ lt_pc = "exit"
    /\ lt_keep_running' = 0
    /\ main_pc' = "join_dma"
    /\ UNCHANGED <<config, stats_mutex, dma_mutex, agg, ltLocals, monLocals,
                   dma_pc, final_out, history, notLat>>

\* pthread_join(dma_thread) and, in continuous mode, the monitor's
\* (lines 705-709).
MainJoinOthers ==
    /\ main_pc = "join_dma"
    /\ dma_pc = "exit"
    /\ config.continuous = 1 => mon_pc = "exit"
    /\ main_pc' = "print"
    /\ UNCHANGED <<config, lt_keep_running, stats_mutex, dma_mutex, agg,
                   ltLocals, monLocals, dma_pc, final_out, history, notLat>>

\* print_stats(1), lines 425-438: the critical section, which returns on an
\* empty aggregator and otherwise computes the mean.
MainPrintLocked ==
    /\ main_pc = "print"
    /\ stats_mutex = "free"
    /\ IF lat_stats.count = 0
       THEN /\ main_pc' = "done"
            /\ UNCHANGED final_out
       ELSE /\ final_out' = [final_out EXCEPT
                                !.mean = MeanOf(lat_stats)]
            /\ main_pc' = "f_print"
    /\ UNCHANGED <<config, lt_keep_running, stats_mutex, dma_mutex, agg,
                   ltLocals, monLocals, dma_pc, history, notLat>>

\* Lines 441-448: the final report's first lines.
MainPrintFields ==
    /\ main_pc = "f_print"
    /\ final_out' = [printed |-> TRUE,
                     mean |-> final_out.mean,
                     count |-> lat_stats.count,
                     errors |-> lat_stats.errors,
                     min_us |-> lat_stats.min_us,
                     max_us |-> lat_stats.max_us]
    /\ main_pc' = "f_pct"
    /\ UNCHANGED <<config, lt_keep_running, stats_mutex, dma_mutex, agg,
                   ltLocals, monLocals, dma_pc, history, notLat>>

\* MainPercentiles that sorts recent_samples itself, not a copy.
MainPercentiles_SortInPlace(failed) ==
    /\ main_pc = "f_pct"
    /\ stats_mutex = "free"
    /\ lat_stats' =
         [lat_stats EXCEPT !.recent_samples =
            SortSamples(SubSeq(@, 1, lat_stats.sample_count))
              \o SubSeq(@, lat_stats.sample_count + 1, Len(@))]
    /\ final_out' = [p \in DOMAIN final_out \cup {"pcts"} |->
                       IF p = "pcts"
                       THEN [k \in 1..Len(Percentiles) |->
                               CalculatePercentile(lat_stats, Percentiles[k],
                                                   k \notin failed)]
                       ELSE final_out[p]]
    /\ main_pc' = "f_hist"
    /\ UNCHANGED <<config, lt_keep_running, stats_mutex, dma_mutex,
                   latency_histogram, histogram_overflow, ltLocals, monLocals,
                   dma_pc, history, notLat>>

\* Lines 450-457: the five calculate_percentile calls; each takes
\* stats_mutex, copies the samples, releases it and sorts the copy.  failed:
\* the calls that get no memory for the copy.
MainPercentiles(failed) ==
    /\ main_pc = "f_pct"
    /\ stats_mutex = "free"
    /\ final_out' = [p \in DOMAIN final_out \cup {"pcts"} |->
                       IF p = "pcts"
                       THEN [k \in 1..Len(Percentiles) |->
                               CalculatePercentile(lat_stats, Percentiles[k],
                                                   k \notin failed)]
                       ELSE final_out[p]]
    /\ main_pc' = "f_hist"
    /\ UNCHANGED <<config, lt_keep_running, stats_mutex, dma_mutex, agg,
                   ltLocals, monLocals, dma_pc, history, notLat>>

\* Lines 467-486: the histogram, each bar scaled by stats.count.
MainPrintHistogram ==
    /\ main_pc = "f_hist"
    /\ final_out' = [p \in DOMAIN final_out \cup {"bars"} |->
                       IF p = "bars"
                       THEN IF config.histogram = 1 /\ latency_histogram # NULL
                            THEN {Quot(latency_histogram[b] * 40, lat_stats.count) :
                                    b \in {c \in 1..HISTOGRAM_BUCKETS :
                                             latency_histogram[c] > 0}}
                            ELSE {}
                       ELSE final_out[p]]
    /\ main_pc' = "done"
    /\ UNCHANGED <<config, lt_keep_running, stats_mutex, dma_mutex, agg,
                   ltLocals, monLocals, dma_pc, history, notLat>>

(***************************************************************************)
(* dma_thread_func, lines 224-246.  What litepcie_dma_process does to the  *)
(* transport shows in this model as the buffers being available or not.    *)
(***************************************************************************)
\* while (keep_running) { pthread_mutex_lock(&dma_mutex) (lines 231-233).
DmaLock ==
    /\ dma_pc = "test"
    /\ IF lt_keep_running = 1
       THEN /\ dma_mutex = "free"
            /\ dma_mutex' = "dma"
            /\ dma_pc' = "process"
       ELSE /\ dma_pc' = "exit"
            /\ UNCHANGED dma_mutex
    /\ UNCHANGED <<config, lt_keep_running, stats_mutex, agg, ltLocals,
                   monLocals, mainLocals, history, notLat>>

\* litepcie_dma_process; pthread_mutex_unlock(&dma_mutex); usleep
\* (lines 235-242).
DmaProcess ==
    /\ dma_pc = "process"
    /\ dma_mutex' = "free"
    /\ dma_pc' = "test"
    /\ UNCHANGED <<config, lt_keep_running, stats_mutex, agg, ltLocals,
                   monLocals, mainLocals, history, notLat>>

(***************************************************************************)
(* monitor_thread_func, lines 498-509, with print_stats(0).                *)
(***************************************************************************)
\* MonSleep that does not look at keep_running.
MonSleep_IgnoresFlag ==
    /\ mon_pc = "sleep"
    /\ mon_pc' = "p_lock"
    /\ UNCHANGED <<config, lt_keep_running, stats_mutex, dma_mutex, agg,
                   ltLocals, mon_mean, mon_out, dma_pc, mainLocals, history,
                   notLat>>

\* while (keep_running) { usleep; if (keep_running) print_stats(0); }
\* (lines 501-506): what the two tests of keep_running come to.
MonSleep ==
    /\ mon_pc = "sleep"
    /\ mon_pc' = IF lt_keep_running = 1 THEN "p_lock" ELSE "exit"
    /\ UNCHANGED <<config, lt_keep_running, stats_mutex, dma_mutex, agg,
                   ltLocals, mon_mean, mon_out, dma_pc, mainLocals, history,
                   notLat>>

\* print_stats, lines 425-438: the critical section, which returns on an
\* empty aggregator and otherwise computes the mean.
MonPrintLocked ==
    /\ mon_pc = "p_lock"
    /\ stats_mutex = "free"
    /\ IF lat_stats.count = 0
       THEN /\ mon_pc' = "sleep"
            /\ UNCHANGED mon_mean
       ELSE /\ mon_mean' = MeanOf(lat_stats)
            /\ mon_pc' = "p_print"
    /\ UNCHANGED <<config, lt_keep_running, stats_mutex, dma_mutex, agg,
                   ltLocals, mon_out, dma_pc, mainLocals, history, notLat>>

\* Lines 487-493: the progress line, from stats read after the unlock.
MonPrintFields ==
    /\ mon_pc = "p_print"
    /\ mon_out' = [printed |-> TRUE,
                   mean |-> mon_mean,
                   count |-> lat_stats.count,
                   min_us |-> lat_stats.min_us,
                   max_us |-> lat_stats.max_us]
    /\ mon_mean' = {}
    /\ mon_pc' = "sleep"
    /\ UNCHANGED <<config, lt_keep_running, stats_mutex, dma_mutex, agg,
                   ltLocals, dma_pc, mainLocals, history, notLat>>

\* signal_handler (lines 512-515), for SIGINT or SIGTERM.
LatSignal ==
    /\ lt_keep_running = 1
    /\ main_pc \notin {"done", "aborted"}
    /\ lt_keep_running' = 0
    /\ UNCHANGED <<config, stats_mutex, dma_mutex, agg, ltLocals, monLocals,
                   dma_pc, mainLocals, history, notLat>>

(***************************************************************************)
(* latency_thread_func (lines 323-377) with measure_dma_latency (lines     *)
(* 249-320) and update_stats (lines 189-221) in line.                      *)
(***************************************************************************)
\* Lines 338-345: the three buffers; a failed allocation ends the thread.
LtAlloc(ok) ==
    /\ lt_pc = "alloc"
    /\ lt_pc' = IF ok THEN "warm" ELSE "exit"
    /\ UNCHANGED <<config, lt_keep_running, stats_mutex, dma_mutex, agg,
                   lt_caller, lt_i, iteration, warmup_done, timeout_count,
                   latency_ns, xfer, m_errors, monLocals, dma_pc, mainLocals,
                   history, notLat>>

\* The call measure_dma_latency(..., iteration++) up to the first lock of
\* dma_mutex: lines 255-264.
MeasureCall(caller) ==
    /\ iteration < LatMaxCalls
    /\ LET words == config.transfer_size \div WORD
           buf == GeneratePattern(config.pattern_type, words, iteration,
                                  [k \in 1..words |-> <<0, k>>])
       IN xfer' = [xfer EXCEPT !.write_buf = buf,
                               !.verify_buf = IF config.verify_data = 1
                                              THEN buf ELSE @]
    /\ iteration' = iteration + 1
    /\ lt_caller' = caller
    /\ timeout_count' = 0
    /\ m_errors' = 0
    /\ agg_at_call' = agg
    /\ lt_pc' = "m_lock_w"

\* MutexAfterTry that unlocks only when a buffer was there.
MutexAfterTry_HeldInBackOff(avail) == IF avail THEN "free" ELSE "latency"

\* dma_mutex after litepcie_dma_next_write_buffer / _read_buffer: unlocked
\* before the back-off (lines 268, 293) and after the copy (lines 279, 304).
MutexAfterTry(avail) == "free"

\* RetryExhausted that never gives up.
RetryExhausted_Never(n) == FALSE

\* ++timeout_count > 1000 (lines 269 and 294); n is the incremented count.
RetryExhausted(n) == n > RETRY_LIMIT

\* Recordable that lets every value through.
Recordable_Always(lat) == TRUE

\* if (latency_ns != UINT64_MAX) (line 360).
Recordable(lat) == lat # UINT64_MAX

\* return from measure_dma_latency: the warmup loop drops the value and
\* counts i (line 349), the main loop tests it (lines 360-362).
MeasureReturn(lat) ==
    IF lt_caller = "warmup"
    THEN /\ lt_pc' = "warm"
         /\ lt_i' = lt_i + 1
         /\ UNCHANGED latency_ns
    ELSE /\ lt_pc' = IF Recordable(lat) THEN "u_lock" ELSE "check"
         /\ latency_ns' = lat
         /\ UNCHANGED lt_i

\* Lines 348-353: the warmup loop.
LtWarm ==
    /\ lt_pc = "warm"
    /\ IF config.warmup > 0 /\ config.continuous = 0
       THEN IF lt_i < config.warmup /\ lt_keep_running = 1
            THEN /\ MeasureCall("warmup")
                 /\ UNCHANGED <<warmup_done, recorded>>
            ELSE /\ warmup_done' = 1
                 /\ lt_pc' = "loop"
                 /\ UNCHANGED <<lt_caller, iteration, timeout_count, xfer,
                                m_errors, history>>
       ELSE /\ lt_pc' = "loop"
            /\ UNCHANGED <<lt_caller, iteration, warmup_done, timeout_count,
                           xfer, m_errors, history>>
    /\ UNCHANGED <<config, lt_keep_running, stats_mutex, dma_mutex, agg, lt_i,
                   latency_ns, monLocals, dma_pc, mainLocals, notLat>>

\* Lines 356-358: while (keep_running) { latency_ns = measure_dma_latency(...).
LtLoop ==
    /\ lt_pc = "loop"
    /\ IF lt_keep_running = 1
       THEN /\ MeasureCall("main")
            /\ UNCHANGED recorded
       ELSE /\ lt_pc' = "exit"
            /\ UNCHANGED <<lt_caller, iteration, timeout_count, xfer, m_errors,
                           history>>
    /\ UNCHANGED <<config, lt_keep_running, stats_mutex, dma_mutex, agg, lt_i,
                   warmup_done, latency_ns, monLocals, dma_pc, mainLocals,
                   notLat>>

\* pthread_mutex_lock(&dma_mutex) at line 264 and again at line 274.
LtLockW ==
    /\ lt_pc = "m_lock_w"
    /\ dma_mutex = "free"
    /\ dma_mutex' = "latency"
    /\ lt_pc' = "m_try_w"
    /\ UNCHANGED <<config, lt_keep_running, stats_mutex, agg, lt_caller, lt_i,
                   iteration, warmup_done, timeout_count, latency_ns, xfer,
                   m_errors, monLocals, dma_pc, mainLocals, history, notLat>>

\* Lines 267-282: litepcie_dma_next_write_buffer.  With a buffer: copy, unlock,
\* start the clock.  Without: unlock, if (++timeout_count > 1000) return
\* UINT64_MAX, usleep(10) and lock again.
LtTryW(avail) ==
    /\ lt_pc = "m_try_w"
    /\ dma_mutex' = MutexAfterTry(avail)
    /\ IF avail
       THEN /\ lt_pc' = "m_lock_r"
            /\ timeout_count' = 0
            /\ UNCHANGED <<lt_i, latency_ns>>
       ELSE /\ timeout_count' = timeout_count + 1
            /\ IF RetryExhausted(timeout_count + 1)
               THEN MeasureReturn(UINT64_MAX)
               ELSE /\ lt_pc' = "m_lock_w"
                    /\ UNCHANGED <<lt_i, latency_ns>>
    /\ UNCHANGED <<config, lt_keep_running, stats_mutex, agg, lt_caller,
                   iteration, warmup_done, xfer, m_errors, monLocals, dma_pc,
                   mainLocals, history, notLat>>

\* LtLockR that goes on without the mutex being free.
LtLockR_NoWait ==
    /\ lt_pc = "m_lock_r"
    /\ dma_mutex' = "latency"
    /\ lt_pc' = "m_try_r"
    /\ UNCHANGED <<config, lt_keep_running, stats_mutex, agg, lt_caller, lt_i,
                   iteration, warmup_done, timeout_count, latency_ns, xfer,
                   m_errors, monLocals, dma_pc, mainLocals, history, notLat>>

\* pthread_mutex_lock(&dma_mutex) at line 289 and again at line 299.
LtLockR ==
    /\ lt_pc = "m_lock_r"
    /\ dma_mutex = "free"
    /\ dma_mutex' = "latency"
    /\ lt_pc' = "m_try_r"
    /\ UNCHANGED <<config, lt_keep_running, stats_mutex, agg, lt_caller, lt_i,
                   iteration, warmup_done, timeout_count, latency_ns, xfer,
                   m_errors, monLocals, dma_pc, mainLocals, history, notLat>>

\* Lines 292-316: litepcie_dma_next_read_buffer.  With a buffer: copy, unlock,
\* stop the clock, verify, and without errors return end - start.  Without:
\* unlock, if (++timeout_count > 1000) return UINT64_MAX, usleep(10) and
\* lock again.
LtTryR(avail, buf, elapsed) ==
    /\ lt_pc = "m_try_r"
    /\ dma_mutex' = MutexAfterTry(avail)
    /\ IF avail
       THEN LET errors == IF config.verify_data = 1
                          THEN VerifyPattern(buf, xfer.verify_buf, Len(buf))
                          ELSE 0
            IN /\ xfer' = [xfer EXCEPT !.read_buf = buf]
               /\ m_errors' = errors
               /\ UNCHANGED timeout_count
               /\ IF errors > 0
                  THEN /\ lt_pc' = "m_err"
                       /\ latency_ns' = elapsed
                       /\ UNCHANGED lt_i
                  ELSE MeasureReturn(elapsed)
       ELSE /\ timeout_count' = timeout_count + 1
            /\ IF RetryExhausted(timeout_count + 1)
               THEN MeasureReturn(UINT64_MAX)
               ELSE /\ lt_pc' = "m_lock_r"
                    /\ UNCHANGED <<lt_i, latency_ns>>
            /\ UNCHANGED <<xfer, m_errors>>
    /\ UNCHANGED <<config, lt_keep_running, stats_mutex, agg, lt_caller,
                   iteration, warmup_done, monLocals, dma_pc, mainLocals,
                   history, notLat>>

\* Lines 310-317: stats.errors += errors under stats_mutex, then
\* return end - start.
LtCountErrors ==
    /\ lt_pc = "m_err"
    /\ stats_mutex = "free"
    /\ lat_stats' = [lat_stats EXCEPT !.errors = @ + m_errors]
    /\ MeasureReturn(latency_ns)
    /\ UNCHANGED <<config, lt_keep_running, stats_mutex, dma_mutex,
                   latency_histogram, histogram_overflow, lt_caller, iteration,
                   warmup_done, timeout_count, xfer, m_errors, monLocals,
                   dma_pc, mainLocals, history, notLat>>

\* LtUpdateLock as if update_stats were called with dma_mutex taken.
LtUpdateLock_HoldingDma ==
    /\ lt_pc = "u_lock"
    /\ stats_mutex = "free"
    /\ dma_mutex = "free"
    /\ stats_mutex' = "latency"
    /\ dma_mutex' = "latency"
    /\ lat_stats' = StatsAccumulate(lat_stats, latency_ns)
    /\ recorded' = Append(recorded, latency_ns)
    /\ lt_pc' = "u_hist"
    /\ UNCHANGED <<config, lt_keep_running, latency_histogram,
                   histogram_overflow, lt_caller, lt_i, iteration, warmup_done,
                   timeout_count, latency_ns, xfer, m_errors, monLocals,
                   dma_pc, mainLocals, agg_at_call, notLat>>

\* update_stats, lines 192-199: lock stats_mutex, count, sums, min and max.
LtUpdateLock ==
    /\ lt_pc = "u_lock"
    /\ stats_mutex = "free"
    /\ stats_mutex' = "latency"
    /\ lat_stats' = StatsAccumulate(lat_stats, latency_ns)
    /\ recorded' = Append(recorded, latency_ns)
    /\ lt_pc' = "u_hist"
    /\ UNCHANGED <<config, lt_keep_running, dma_mutex, latency_histogram,
                   histogram_overflow, lt_caller, lt_i, iteration, warmup_done,
                   timeout_count, latency_ns, xfer, m_errors, monLocals,
                   dma_pc, mainLocals, agg_at_call, notLat>>

\* update_stats, lines 201-209: the histogram.
LtUpdateHistogram ==
    /\ lt_pc = "u_hist"
    /\ LET h == HistogramUpdate(config, latency_histogram, histogram_overflow,
                                latency_ns)
       IN /\ latency_histogram' = h.hist
          /\ histogram_overflow' = h.overflow
    /\ lt_pc' = "u_sample"
    /\ UNCHANGED <<config, lt_keep_running, stats_mutex, dma_mutex, lat_stats,
                   lt_caller, lt_i, iteration, warmup_done, timeout_count,
                   latency_ns, xfer, m_errors, monLocals, dma_pc, mainLocals,
                   history, notLat>>

\* update_stats, lines 211-220: the sample ring, then unlock.
LtUpdateSamples ==
    /\ lt_pc = "u_sample"
    /\ lat_stats' = SampleStore(config, lat_stats, latency_ns)
    /\ stats_mutex' = "free"
    /\ lt_pc' = "check"
    /\ UNCHANGED <<config, lt_keep_running, dma_mutex, latency_histogram,
                   histogram_overflow, lt_caller, lt_i, iteration, warmup_done,
                   timeout_count, latency_ns, xfer, m_errors, monLocals,
                   dma_pc, mainLocals, history, notLat>>

\* Lines 365-369: the end of a run that is not continuous.
LtCheck ==
    /\ lt_pc = "check"
    /\ IF config.continuous = 0 /\ warmup_done = 1
          /\ lat_stats.count >= config.iterations
       THEN /\ lt_keep_running' = 0
            /\ lt_pc' = "exit"
       ELSE /\ lt_pc' = "loop"
            /\ UNCHANGED lt_keep_running
    /\ UNCHANGED <<config, stats_mutex, dma_mutex, agg, lt_caller, lt_i,
                   iteration, warmup_done, timeout_count, latency_ns, xfer,
                   m_errors, monLocals, dma_pc, mainLocals, history, notLat>>

LatencyThread ==
    \/ \E ok \in BOOLEAN : LtAlloc(ok)
    \/ LtWarm \/ LtLoop
    \/ LtLockW \/ (\E avail \in BOOLEAN : LtTryW(avail))
    \/ LtLockR
    \/ (\E avail \in BOOLEAN, buf \in ReadBacks(xfer.write_buf),
           elapsed \in LatLatencies : LtTryR(avail, buf, elapsed))
    \/ LtCountErrors
    \/ LtUpdateLock \/ LtUpdateHistogram \/ LtUpdateSamples \/ LtCheck

MainThread ==
    \/ (\E ok \in BOOLEAN : MainCreateDma(ok))
    \/ (\E ok \in BOOLEAN : MainCreateLatency(ok))
    \/ (\E ok \in BOOLEAN : MainCreateMonitor(ok))
    \/ MainAbortJoin
    \/ MainJoinLatency \/ MainJoinOthers
    \/ MainPrintLocked \/ MainPrintFields
    \/ (\E failed \in MallocFailures : MainPercentiles(failed))
    \/ MainPrintHistogram

DmaThread == DmaLock \/ DmaProcess

MonitorThread == MonSleep \/ MonPrintLocked \/ MonPrintFields

LatNext == MainThread \/ DmaThread \/ LatencyThread \/ MonitorThread \/ LatSignal

LatSpec == LatInit /\ [][LatNext]_<<vars, notPcie>>

\* The runs with verification and the histogram on (the defaults) and one
\* iteration asked for: every step of every thread occurs in them.
LatCancelInit ==
    /\ LatInit
    /\ config.iterations = 1
    /\ config.verify_data = 1
    /\ config.histogram = 1

\* Every thread that can take a step gets to take one: the four are
\* scheduled independently and block on nothing but the two mutexes.
LatFairSpec ==
    /\ LatCancelInit
    /\ [][LatNext]_<<vars, notPcie>>
    /\ WF_<<vars, notPcie>>(MainThread)
    /\ WF_<<vars, notPcie>>(DmaThread)
    /\ WF_<<vars, notPcie>>(LatencyThread)
    /\ WF_<<vars, notPcie>>(MonitorThread)

(***************************************************************************)
(* Properties of the threaded test.                                        *)
(***************************************************************************)
\* The fields of the aggregator that describe latencies, of an aggregator
\* value a = <<stats, histogram, overflow>>.
LatencyPart(a) ==
    <<a[1].count, a[1].sum_us, a[1].sum_sq_us, a[1].min_us, a[1].max_us,
      a[1].recent_samples, a[1].sample_index, a[1].sample_count, a[2], a[3]>>

\* The latency thread is inside update_stats' critical section.
InUpdateStats == stats_mutex = "latency"

RECURSIVE SumSeq(_)
SumSeq(q) == IF q = << >> THEN 0 ELSE Head(q) + SumSeq(Tail(q))

\* The last n elements of q.
LastN(q, n) == SubSeq(q, Len(q) - n + 1, Len(q))

\* C11: when an iteration of the main loop whose payload failed verification
\* is over, the error counter has grown and count, the sums, min, max, the
\* histogram and the sample ring are what they were when it began.
C11_CorruptNotRecorded ==
    (lt_pc = "check" /\ m_errors > 0) =>
        /\ lat_stats.errors > agg_at_call[1].errors
        /\ LatencyPart(agg) = LatencyPart(agg_at_call)

\* C12: outside update_stats' critical section stats.count is the number of
\* latencies update_stats recorded, and with the histogram enabled the
\* bucket counts and histogram_overflow add up to it.
C12_HistogramAccounts ==
    ~InUpdateStats =>
        /\ lat_stats.count = Len(recorded)
        /\ (config.histogram = 1) =>
              SumSeq(latency_histogram) + histogram_overflow = lat_stats.count

\* Two latencies are recorded, one in a bucket and one beyond the last.
C12_Witness ==
    /\ config.histogram = 1
    /\ ~InUpdateStats
    /\ lat_stats.count = 2
    /\ histogram_overflow = 1
    /\ SumSeq(latency_histogram) = 1

\* C13: outside update_stats' critical section the sample ring holds the
\* min(count, N) latencies recorded last, N being config.iterations.
C13_RingHoldsMostRecent ==
    ~InUpdateStats =>
        LET n == IF lat_stats.count < config.iterations
                 THEN lat_stats.count ELSE config.iterations
        IN /\ lat_stats.sample_count = n
           /\ SortSamples(SubSeq(lat_stats.recent_samples, 1, n))
                = SortSamples(LastN(recorded, n))

\* C14: the count a progress line shows is the count its mean was computed
\* from under stats_mutex.
C14_SnapshotAtomic ==
    mon_out.printed => \A q \in mon_out.mean : q.den = mon_out.count

\* C15: no step of print_stats, of calculate_percentile or of the monitor
\* thread changes a field of the aggregator.
C15_ReportsDoNotMutate ==
    [][(MonitorThread \/ MainPrintLocked \/ MainPrintFields
          \/ (\E failed \in MallocFailures : MainPercentiles(failed))
          \/ MainPrintHistogram) => agg' = agg]_<<vars, notPcie>>

\* The final report is out, for a ring that holds two samples out of order.
C15_Witness ==
    /\ main_pc = "done"
    /\ final_out.printed
    /\ lat_stats.sample_count = 2
    /\ lat_stats.recent_samples[1] > lat_stats.recent_samples[2]

\* C17: when main is through print_stats(1), a final report is out.
C17_FinalReportAlways ==
    main_pc = "done" => final_out.printed

\* The step ends a call from the main loop with an acquisition timeout.
TimedOut ==
    /\ lt_pc \in {"m_try_w", "m_try_r"}
    /\ lt_caller = "main"
    /\ lt_pc' \in {"u_lock", "check"}
    /\ latency_ns' = UINT64_MAX

\* C19: a failed attempt to get a buffer that is followed by another attempt
\* counts up timeout_count, which stays within the retry limit: no call makes
\* more than RETRY_LIMIT further attempts for either buffer.
C19_RetriesBounded ==
    [][((lt_pc = "m_try_w" /\ lt_pc' = "m_lock_w")
          \/ (lt_pc = "m_try_r" /\ lt_pc' = "m_lock_r")) =>
         /\ timeout_count' = timeout_count + 1
         /\ timeout_count' <= RETRY_LIMIT]_<<vars, notPcie>>

\* A call has given up on the read buffer after all its attempts.
C19_Witness ==
    /\ lt_pc = "check"
    /\ latency_ns = UINT64_MAX
    /\ timeout_count = RETRY_LIMIT + 1
    /\ xfer.write_buf # xfer.read_buf

C21_TransportSerialized ==
    /\ dma_pc = "process" => dma_mutex = "dma"
    /\ lt_pc \in {"m_try_w", "m_try_r"} => dma_mutex = "latency"

\* The DMA thread is inside litepcie_dma_process while the latency thread
\* waits for dma_mutex to ask for the read buffer.
C21_Witness ==
    /\ dma_pc = "process"
    /\ dma_mutex = "dma"
    /\ lt_pc = "m_lock_r"

\* C22: outside the transport call the latency thread does not hold dma_mutex
\* (in the back-off of a retry and on every return of measure_dma_latency
\* too), outside update_stats it does not hold stats_mutex, and the DMA
\* thread holds dma_mutex only inside litepcie_dma_process.
C22_NoSleepHoldingMutex ==
    /\ lt_pc \notin {"m_try_w", "m_try_r"} => dma_mutex # "latency"
    /\ lt_pc \notin {"u_hist", "u_sample"} => stats_mutex # "latency"
    /\ dma_pc # "process" => dma_mutex # "dma"

\* measure_dma_latency has returned from a timeout on the read buffer, and
\* the DMA thread has dma_mutex.
C22_Witness ==
    /\ lt_pc = "check"
    /\ latency_ns = UINT64_MAX
    /\ timeout_count = RETRY_LIMIT + 1
    /\ dma_mutex = "dma"

\* C23: with keep_running cleared, a failed attempt to get a buffer is not
\* followed by another attempt: the retry loop is left.
C23_CancelLeavesRetryLoop ==
    [][lt_keep_running = 0 =>
         ~ \/ (lt_pc = "m_try_w" /\ lt_pc' = "m_lock_w")
           \/ (lt_pc = "m_try_r" /\ lt_pc' = "m_lock_r")]_<<vars, notPcie>>

\* C28: when the measurement buffers cannot be allocated, no thread has been
\* started.
C28_AllocFailureBeforeRoles ==
    [][(lt_pc = "alloc" /\ lt_pc' = "exit") =>
         (dma_pc = "off" /\ mon_pc = "off")]_<<vars, notPcie>>

\* C29: once keep_running is cleared, every thread that was started leaves
\* its loop and main gets past its joins to cleanup.
C29_AllThreadsJoined ==
    (lt_keep_running = 0) ~>
        /\ main_pc \in {"done", "aborted"}
        /\ dma_pc \in {"off", "exit"}
        /\ lt_pc \in {"off", "exit"}
        /\ mon_pc \in {"off", "exit"}

\* A continuous run was cancelled by a signal while the three threads were
\* running, and main is through.
C29_Witness ==
    /\ main_pc = "done"
    /\ lt_keep_running = 0
    /\ dma_pc = "exit"
    /\ lt_pc = "exit"
    /\ mon_pc = "exit"
    /\ lat_stats.count > 0

\* C30: in a run that is not continuous, the latency thread does not go
\* round its main loop again once stats.count has reached config.iterations.
C30_StopsAtIterationCount ==
    (config.continuous = 0 /\ lt_pc = "loop") =>
        lat_stats.count < config.iterations

\* C35: no thread holds dma_mutex and stats_mutex at the same time, no
\* thread is about to lock a mutex it holds, and the holder of a mutex can
\* always take its next step, so the two mutexes cannot deadlock the
\* threads.
C35_NoMutexDeadlock ==
    /\ ~(dma_mutex = "latency" /\ stats_mutex = "latency")
    /\ lt_pc \in {"m_lock_w", "m_lock_r"} => dma_mutex # "latency"
    /\ lt_pc \in {"u_lock", "m_err"} =>
          (stats_mutex # "latency" /\ dma_mutex # "latency")
    /\ dma_pc = "test" => dma_mutex # "dma"
    /\ dma_mutex = "dma" => ENABLED DmaThread
    /\ dma_mutex = "latency" => ENABLED LatencyThread
    /\ stats_mutex = "latency" => ENABLED LatencyThread

\* The latency thread is inside update_stats, holding stats_mutex, while
\* the DMA thread holds dma_mutex and the monitor waits for stats_mutex.
C35_Witness ==
    /\ stats_mutex = "latency"
    /\ dma_mutex = "dma"
    /\ lt_pc = "u_hist"
    /\ mon_pc = "p_lock"

\* The latency thread is in its warmup phase: at the warmup loop or inside a
\* call of measure_dma_latency made from it.
InWarmup ==
    \/ lt_pc = "warm"
    \/ /\ lt_caller = "warmup"
       /\ lt_pc \in {"m_lock_w", "m_try_w", "m_lock_r", "m_try_r", "m_err"}

\* C31: during the warmup phase no field of the aggregator changes: count,
\* sums, min, max, histogram, sample ring and error counter stay as they
\* are.
C31_WarmupLeavesAggregator ==
    [][InWarmup => agg' = agg]_<<vars, notPcie>>


(***************************************************************************)
(* Part 3: the report at the end of a run, in the three variants:          *)
(*   "final"     pcie_latency_test, litepcie_latency_test_final.c 224-241  *)
(*   "threaded"  print_stats(1), litepcie_dma_latency_test.c 422-486       *)
(*   "simple"    main and calculate_stats, litepcie_dma_latency_simple.c   *)
(*               132-169 and 396-419                                       *)
(* The run itself is its result: the latencies it measured.                *)
(***************************************************************************)
\* A run measures at most RepMaxSamples latencies.
RepMaxSamples == 4

\* The latencies a run can measure, in nanoseconds.
RepLatencies == {HALF_US, 3 * HALF_US, 5 * HALF_US}

\* compare_uint64 with qsort (simple.c lines 125-129 and 149): ascending
\* order of uint64_t values.
RECURSIVE InsertU64(_, _)
InsertU64(sorted, x) ==
    IF sorted = << >> THEN <<x>>
    ELSE IF U64Less(x, Head(sorted)) THEN <<x>> \o sorted
    ELSE <<Head(sorted)>> \o InsertU64(Tail(sorted), x)

RECURSIVE Qsort(_)
Qsort(a) == IF a = << >> THEN << >> ELSE InsertU64(Qsort(Tail(a)), Head(a))

\* The count of simple.c lines 137-141 and 379-381: the entries that are not
\* UINT64_MAX.
ValidCount(a) == Cardinality({i \in 1..Len(a) : a[i] # UINT64_MAX})

\* The aggregator after update_stats was called for each latency of q in
\* turn, from the aggregator st.
RECURSIVE Recorded(_, _, _)
Recorded(cfg, st, q) ==
    IF q = << >> THEN st
    ELSE Recorded(cfg, SampleStore(cfg, StatsAccumulate(st, Head(q)), Head(q)),
                  Tail(q))

\* The histogram after update_stats was called for each latency of q in turn.
RECURSIVE RecordedHistogram(_, _, _)
RecordedHistogram(cfg, h, q) ==
    IF q = << >> THEN h
    ELSE RecordedHistogram(cfg, HistogramUpdate(cfg, h.hist, h.overflow, Head(q)),
                           Tail(q))

\* The threaded test's configuration and aggregator at print_stats(1), for a
\* run that recorded rep_latencies.
RepConfig == [iterations |-> RepMaxSamples, histogram |-> 1]
RepStats ==
    Recorded(RepConfig,
             [count |-> 0, errors |-> 0, min_us |-> MIN_US_INIT, max_us |-> 0,
              sum_us |-> 0, sum_sq_us |-> 0,
              recent_samples |-> [i \in 1..RepMaxSamples |-> 0],
              sample_index |-> 0, sample_count |-> 0],
             rep_latencies)
RepHistogram ==
    RecordedHistogram(RepConfig,
                      [hist |-> [b \in 1..HISTOGRAM_BUCKETS |-> 0], overflow |-> 0],
                      rep_latencies)

\* The end of a run.  In the simple variant a cancelled run leaves the rest
\* of the malloc'ed array as it was, and valid counts the measured part only.
RepInit ==
    /\ rep_variant \in {"final", "threaded", "simple"}
    /\ rep_latencies \in UNION {[1..n -> IF rep_variant = "simple"
                                         THEN RepLatencies \cup {UINT64_MAX}
                                         ELSE RepLatencies] :
                                  n \in 0..RepMaxSamples}
    /\ rep_valid \in IF rep_variant = "simple"
                     THEN {ValidCount(SubSeq(rep_latencies, 1, n)) :
                             n \in 0..Len(rep_latencies)}
                     ELSE {Len(rep_latencies)}
    /\ rep_pc = "run_over"
    /\ rep_out = [printed |-> FALSE, divs |-> {}, pcts |-> << >>, idx |-> {},
                  failed |-> {}]
    /\ PcieParked
    /\ LatParked
    /\ OptParked
    /\ SimParked
    /\ KerParked
    /\ DrvParked

notRep == <<vars, latVars, optVars, simVars, kerVars, drvVars>>

\* RepFinal without the test of successful.
RepFinal_NoGuard ==
    /\ rep_variant = "final"
    /\ rep_pc = "run_over"
    /\ rep_out' = [rep_out EXCEPT !.printed = TRUE,
                                  !.divs = {Quot(SumSeq(rep_latencies), rep_valid)}]
    /\ rep_pc' = "done"
    /\ UNCHANGED <<rep_variant, rep_latencies, rep_valid, notRep>>

\* litepcie_latency_test_final.c lines 224-241: the counters, and with
\* successful > 0 the average total_latency / successful.
RepFinal ==
    /\ rep_variant = "final"
    /\ rep_pc = "run_over"
    /\ rep_out' = [rep_out EXCEPT !.printed = TRUE,
                                  !.divs = IF rep_valid > 0
                                           THEN {Quot(SumSeq(rep_latencies), rep_valid)}
                                           ELSE {}]
    /\ rep_pc' = "done"
    /\ UNCHANGED <<rep_variant, rep_latencies, rep_valid, notRep>>

\* print_stats(1), lines 425-448 of the threaded test: nothing for an empty
\* aggregator, otherwise mean and stddev.
RepThreadedStats ==
    /\ rep_variant = "threaded"
    /\ rep_pc = "run_over"
    /\ IF RepStats.count = 0
       THEN /\ rep_pc' = "done"
            /\ UNCHANGED rep_out
       ELSE /\ rep_out' = [rep_out EXCEPT !.printed = TRUE,
                                          !.divs = MeanOf(RepStats)]
            /\ rep_pc' = "pct"
    /\ UNCHANGED <<rep_variant, rep_latencies, rep_valid, notRep>>

\* print_stats(1), lines 450-486 of the threaded test: the percentiles and
\* the bars of the histogram.
RepThreadedPercentiles(failed) ==
    /\ rep_variant = "threaded"
    /\ rep_pc = "pct"
    /\ rep_out' =
         [rep_out EXCEPT
            !.pcts = [k \in 1..Len(Percentiles) |->
                        CalculatePercentile(RepStats, Percentiles[k],
                                            k \notin failed)],
            !.idx = {[index |-> PercentileIndex(Percentiles[k],
                                                RepStats.sample_count),
                      count |-> RepStats.sample_count] :
                       k \in (1..Len(Percentiles)) \ failed},
            !.failed = failed,
            !.divs = @ \cup {Quot(RepHistogram.hist[b] * 40, RepStats.count) :
                               b \in {c \in 1..HISTOGRAM_BUCKETS :
                                        RepHistogram.hist[c] > 0}}]
    /\ rep_pc' = "done"
    /\ UNCHANGED <<rep_variant, rep_latencies, rep_valid, notRep>>

\* calculate_stats of the simple variant (lines 132-169) on the array a:
\* what it divides, the percentiles and the indexes it reads them at.
CalculateStats(a) ==
    LET valid_count == ValidCount(a)
        latencies == Qsort(a)
        at == [k \in 1..4 |-> (valid_count * <<50, 90, 95, 99>>[k]) \div 100]
    IN IF valid_count = 0
       THEN [divs |-> {}, pcts |-> << >>, idx |-> {}]
       ELSE [divs |-> {Quot(SumSeq(SubSeq(latencies, 1, valid_count)), valid_count)},
             pcts |-> [k \in 1..4 |-> latencies[at[k] + 1]],
             idx |-> {[index |-> at[k], count |-> valid_count] : k \in 1..4}]

\* main of the simple variant, lines 396-419: with valid > 0 the statistics
\* and the share of valid measurements, otherwise an error message.
RepSimple ==
    /\ rep_variant = "simple"
    /\ rep_pc = "run_over"
    /\ IF rep_valid > 0
       THEN LET st == CalculateStats(rep_latencies)
            IN rep_out' = [rep_out EXCEPT
                             !.printed = TRUE,
                             !.divs = st.divs \cup
                                        {Quot(100 * rep_valid, Len(rep_latencies))},
                             !.pcts = st.pcts,
                             !.idx = st.idx]
       ELSE rep_out' = [rep_out EXCEPT !.printed = TRUE]
    /\ rep_pc' = "done"
    /\ UNCHANGED <<rep_variant, rep_latencies, rep_valid, notRep>>

RepNext ==
    \/ RepFinal
    \/ RepThreadedStats
    \/ \E failed \in MallocFailures : RepThreadedPercentiles(failed)
    \/ RepSimple

RepSpec == RepInit /\ [][RepNext]_<<vars, notPcie>>

C18_NoDivisionByZeroCount ==
    \A q \in rep_out.divs : q.den > 0

\* A run in which every iteration failed, or that was cancelled before its
\* first measurement, has reported.
C18_Witness ==
    /\ rep_pc = "done"
    /\ rep_valid = 0
    /\ rep_variant \in {"final", "simple"}
    /\ rep_out.printed
    /\ rep_out.divs = {}

(***************************************************************************)
(* Part 4: litepcie_dma_test_optimized_v2.c.                               *)
(*                                                                         *)
(* The writer thread generates one pattern buffer and copies it into every *)
(* write buffer it gets; the reader thread verifies every read buffer.     *)
(* The transport between them is the external loopback: what was written   *)
(* comes back in order, and the model may change words on the way.         *)
(* The DMA thread calls litepcie_dma_process.  Every critical section of   *)
(* dma_mutex and of stats_mutex holds one call or one update and nothing   *)
(* else, so each is one step; what a thread does between two critical      *)
(* sections is a step of its own.                                          *)
(* A 32-bit word is the pair <<high half, low half>>, as in part 2.        *)
(***************************************************************************)
\* Bounds of part 4.
OptMaxBuffers == 3
OptMaxInFlight == 2
OptMaxDmaCalls == 2

\* Program constants of part 4 (PATTERN_SEQ and PATTERN_RANDOM have the
\* values of part 2).
PATTERN_ONES == 2
PATTERN_ZEROS == 3
PATTERN_ALT == 4
LCG_MULTIPLIER == 69069
\* `if (errors > 10) break;`
ERROR_BREAK == 10

OptPatternTypes ==
    {PATTERN_SEQ, PATTERN_RANDOM, PATTERN_ONES, PATTERN_ZEROS, PATTERN_ALT}
\* global_seed = time(NULL): some 32-bit values.
OptSeeds == {<<0, 0>>, <<0, 1>>, <<HALF_WORD - 1, HALF_WORD - 1>>}
\* DMA_BUFFER_SIZE / sizeof(uint32_t), scaled: below and above ERROR_BREAK.
OptWordCounts == {2, ERROR_BREAK + 2}

ALL_ONES == <<HALF_WORD - 1, HALF_WORD - 1>>
ALL_ZEROS == <<0, 0>>

\* *seed = *seed * 69069 + 1, in uint32_t.
LcgStep(seed) ==
    LET ml == LCG_MULTIPLIER % HALF_WORD
        mh == LCG_MULTIPLIER \div HALF_WORD
        low == seed[2] * ml + 1
        high == seed[1] * ml + seed[2] * mh + (low \div HALF_WORD)
    IN  <<high % HALF_WORD, low % HALF_WORD>>

\* The seed after n steps.
RECURSIVE LcgAfter(_, _)
LcgAfter(seed, n) == IF n = 0 THEN seed ELSE LcgAfter(LcgStep(seed), n - 1)

\* buffer[i] of generate_pattern, i from 0; seed is the stepped seed.
GenerateWord(type, i, seed) ==
    CASE type = PATTERN_SEQ -> <<i \div HALF_WORD, i % HALF_WORD>>
      [] type = PATTERN_RANDOM -> seed
      [] type = PATTERN_ONES -> ALL_ONES
      [] type = PATTERN_ZEROS -> ALL_ZEROS
      [] type = PATTERN_ALT -> IF i % 2 = 1 THEN ALL_ONES ELSE ALL_ZEROS

\* generate_pattern(buffer, count, &seed): the buffer and the seed left.
OptGeneratePattern(type, count, seed) ==
    [buffer |-> [k \in 1..count |->
                    GenerateWord(type, k - 1,
                                 IF type = PATTERN_RANDOM
                                 THEN LcgAfter(seed, k) ELSE seed)],
     seed |-> IF type = PATTERN_RANDOM THEN LcgAfter(seed, count) ELSE seed]

\* VerifyExpected with the alternating pattern the other way round.
VerifyExpected_AltInverted(type, i, seed) ==
    CASE type = PATTERN_SEQ -> <<i \div HALF_WORD, i % HALF_WORD>>
      [] type = PATTERN_RANDOM -> seed
      [] type = PATTERN_ONES -> ALL_ONES
      [] type = PATTERN_ZEROS -> ALL_ZEROS
      [] type = PATTERN_ALT -> IF i % 2 = 1 THEN ALL_ZEROS ELSE ALL_ONES

\* `expected` of verify_pattern at index i, i from 0; seed is the stepped
\* seed.
VerifyExpected(type, i, seed) ==
    CASE type = PATTERN_SEQ -> <<i \div HALF_WORD, i % HALF_WORD>>
      [] type = PATTERN_RANDOM -> seed
      [] type = PATTERN_ONES -> ALL_ONES
      [] type = PATTERN_ZEROS -> ALL_ZEROS
      [] type = PATTERN_ALT -> IF i % 2 = 1 THEN ALL_ONES ELSE ALL_ZEROS

\* The loop of verify_pattern from index i (from 0) with `errors` counted so
\* far: it leaves at the end of the buffer or when errors exceeds 10.
RECURSIVE VerifyFrom(_, _, _, _, _, _)
VerifyFrom(type, buffer, count, i, seed, errors) ==
    IF i >= count
    THEN [errors |-> errors, seed |-> seed]
    ELSE LET s2 == IF type = PATTERN_RANDOM THEN LcgStep(seed) ELSE seed
         IN  IF buffer[i + 1] # VerifyExpected(type, i, s2)
             THEN IF errors + 1 > ERROR_BREAK
                  THEN [errors |-> errors + 1, seed |-> s2]
                  ELSE VerifyFrom(type, buffer, count, i + 1, s2, errors + 1)
             ELSE VerifyFrom(type, buffer, count, i + 1, s2, errors)

\* verify_pattern(buffer, count, &seed): the return value and the seed left.
OptVerifyPattern(type, buffer, count, seed) ==
    VerifyFrom(type, buffer, count, 0, seed, 0)

\* The words a transport fault may change in a buffer of count words: none,
\* one, all, all but the first.
OptFaults(count) == {{}, {1}, 1..count, 2..count}

\* The buffer with the words at the indices in S changed.
Faulted(buf, S) ==
    [k \in 1..Len(buf) |-> IF k \in S THEN CorruptWord(buf[k]) ELSE buf[k]]

\* EffectiveVerify that leaves verification as the options asked.
EffectiveVerify_AsRequested(external_loopback, verify_data) == verify_data

\* config.verify_data after lines 480-485: verification is switched off in
\* internal loopback.
EffectiveVerify(external_loopback, verify_data) ==
    IF external_loopback = 0 /\ verify_data = 1 THEN 0 ELSE verify_data

\* main, lines 391-500: the options are parsed (-p, -l, -n), the seed is
\* drawn (line 478), verification is settled, no thread runs yet.
OptInit ==
    /\ opt_config \in
          {[pattern_type |-> p, external_loopback |-> l,
            verify_data |-> EffectiveVerify(l, v)] :
              p \in OptPatternTypes, l \in {0, 1}, v \in {0, 1}}
    /\ global_seed \in OptSeeds
    /\ opt_words \in OptWordCounts
    /\ opt_keep_running = 1
    /\ opt_stats = [tx_buffers |-> 0, rx_buffers |-> 0, errors |-> 0,
                    dma_calls |-> 0]
    /\ opt_dma_pc = "loop"
    /\ wr_pc = "start"
    /\ pattern = << >>
    /\ rd_pc = "start"
    /\ rd_seed = ALL_ZEROS
    /\ ring = << >>
    /\ opt_clean = TRUE
    /\ last_verify = [done |-> FALSE, buffer |-> << >>, seed |-> ALL_ZEROS,
                      errors |-> 0]
    /\ PcieParked
    /\ LatParked
    /\ RepParked
    /\ SimParked
    /\ KerParked
    /\ DrvParked

notOpt == <<vars, latVars, repVars, simVars, kerVars, drvVars>>

\* writer_thread_func, lines 226-246: seed = global_seed, the pattern buffer
\* is allocated and filled once.
WriterStart(ok) ==
    /\ wr_pc = "start"
    /\ IF ok
       THEN /\ pattern' = OptGeneratePattern(opt_config.pattern_type,
                                             opt_words, global_seed).buffer
            /\ wr_pc' = "loop"
       ELSE /\ wr_pc' = "exit"
            /\ UNCHANGED pattern
    /\ UNCHANGED <<opt_config, global_seed, opt_words, opt_keep_running,
                   opt_stats, opt_dma_pc, rd_pc, rd_seed, ring, opt_clean,
                   last_verify, notOpt>>

\* The top of the writer's loop, lines 248-251: the test of keep_running and
\* litepcie_dma_next_write_buffer under dma_mutex, here with a buffer.
WriterLoop ==
    /\ wr_pc = "loop"
    /\ IF opt_keep_running = 0
       THEN wr_pc' = "exit"
       ELSE /\ Len(ring) < OptMaxInFlight
            /\ opt_stats.tx_buffers < OptMaxBuffers
            /\ wr_pc' = "copy"
    /\ UNCHANGED <<opt_config, global_seed, opt_words, opt_keep_running,
                   opt_stats, opt_dma_pc, pattern, rd_pc, rd_seed, ring,
                   opt_clean, last_verify, notOpt>>

\* Lines 253-278, with no mutex held until the counters: the pattern is
\* copied into the write buffer, then the tx counters advance under
\* stats_mutex.
WriterCopy ==
    /\ wr_pc = "copy"
    /\ ring' = Append(ring, pattern)
    /\ opt_stats' = [opt_stats EXCEPT !.tx_buffers = @ + 1]
    /\ wr_pc' = "loop"
    /\ UNCHANGED <<opt_config, global_seed, opt_words, opt_keep_running,
                   opt_dma_pc, pattern, rd_pc, rd_seed, opt_clean, last_verify,
                   notOpt>>

\* dma_thread_func, lines 210-213: the test of keep_running and
\* litepcie_dma_process under dma_mutex.
OptDmaProcess ==
    /\ opt_dma_pc = "loop"
    /\ IF opt_keep_running = 0
       THEN opt_dma_pc' = "exit"
       ELSE /\ opt_stats.dma_calls < OptMaxDmaCalls
            /\ opt_dma_pc' = "count"
    /\ UNCHANGED <<opt_config, global_seed, opt_words, opt_keep_running,
                   opt_stats, wr_pc, pattern, rd_pc, rd_seed, ring, opt_clean,
                   last_verify, notOpt>>

\* Lines 215-219: stats.dma_calls++ under stats_mutex, then the sleep.
OptDmaCount ==
    /\ opt_dma_pc = "count"
    /\ opt_stats' = [opt_stats EXCEPT !.dma_calls = @ + 1]
    /\ opt_dma_pc' = "loop"
    /\ UNCHANGED <<opt_config, global_seed, opt_words, opt_keep_running,
                   wr_pc, pattern, rd_pc, rd_seed, ring, opt_clean,
                   last_verify, notOpt>>

\* reader_thread_func, line 294: seed = global_seed.
ReaderStart ==
    /\ rd_pc = "start"
    /\ rd_seed' = global_seed
    /\ rd_pc' = "loop"
    /\ UNCHANGED <<opt_config, global_seed, opt_words, opt_keep_running,
                   opt_stats, opt_dma_pc, wr_pc, pattern, ring, opt_clean,
                   last_verify, notOpt>>

\* One pass of the reader's loop, lines 306-338, with a read buffer: it is
\* verified when verification is on, the errors are added to stats.errors
\* and the rx counters advance.  S: the words the transport changed.
ReaderLoop(S) ==
    /\ rd_pc = "loop"
    /\ IF opt_keep_running = 0
       THEN /\ rd_pc' = "exit"
            /\ UNCHANGED <<ring, opt_stats, rd_seed, opt_clean, last_verify>>
       ELSE /\ ring # << >>
            /\ LET buf == Faulted(Head(ring), S)
                   v == OptVerifyPattern(opt_config.pattern_type, buf,
                                         opt_words, rd_seed)
               IN  /\ ring' = Tail(ring)
                   /\ opt_clean' = (opt_clean /\ S = {})
                   /\ IF opt_config.verify_data = 1
                         /\ opt_config.pattern_type <= PATTERN_ALT
                      THEN /\ rd_seed' = v.seed
                           /\ last_verify' = [done |-> TRUE, buffer |-> buf,
                                              seed |-> rd_seed,
                                              errors |-> v.errors]
                           /\ opt_stats' =
                                [opt_stats EXCEPT !.errors = @ + v.errors,
                                                  !.rx_buffers = @ + 1]
                      ELSE /\ opt_stats' =
                                [opt_stats EXCEPT !.rx_buffers = @ + 1]
                           /\ UNCHANGED <<rd_seed, last_verify>>
            /\ UNCHANGED rd_pc
    /\ UNCHANGED <<opt_config, global_seed, opt_words, opt_keep_running,
                   opt_dma_pc, wr_pc, pattern, notOpt>>

\* signal_handler (lines 344-347) or the end of the duration in main's loop
\* (lines 531-534): keep_running = 0.
OptStop ==
    /\ opt_keep_running = 1
    /\ opt_keep_running' = 0
    /\ UNCHANGED <<opt_config, global_seed, opt_words, opt_stats, opt_dma_pc,
                   wr_pc, pattern, rd_pc, rd_seed, ring, opt_clean,
                   last_verify, notOpt>>

OptNext ==
    \/ \E ok \in BOOLEAN : WriterStart(ok)
    \/ WriterLoop
    \/ WriterCopy
    \/ OptDmaProcess
    \/ OptDmaCount
    \/ ReaderStart
    \/ \E S \in OptFaults(opt_words) : ReaderLoop(S)
    \/ OptStop

OptSpec == OptInit /\ [][OptNext]_<<vars, notPcie>>

(***************************************************************************)
(* Properties of the pattern generator, the verifier and the two threads.  *)
(***************************************************************************)
\* The number of words of buffer that differ from the pattern of this type,
\* count and seed.
FullMismatches(type, buffer, count, seed) ==
    LET expected == OptGeneratePattern(type, count, seed).buffer
    IN  Cardinality({k \in 1..count : buffer[k] # expected[k]})

\* C24: for every pattern mode, seed and length, verifying a buffer that
\* generate_pattern produced with the same seed and length reports 0
\* errors: when the reader verifies, with the seed the writer generated
\* from, a buffer that arrived as the writer generated it, verify_pattern
\* returns 0.
C24_VerifyOfGenerateIsZero ==
    (/\ last_verify.done
     /\ last_verify.seed = global_seed
     /\ last_verify.buffer = pattern) =>
        last_verify.errors = 0

\* The reader verified an unchanged random buffer of the longer size with
\* the writer's seed and found no error.
C24_Witness ==
    /\ last_verify.done
    /\ last_verify.seed = global_seed
    /\ last_verify.buffer = pattern
    /\ opt_config.pattern_type = PATTERN_RANDOM
    /\ opt_words = ERROR_BREAK + 2
    /\ last_verify.errors = 0
    /\ opt_stats.rx_buffers = 1

\* C25: in random mode, on a transport that returns every buffer in order
\* and unchanged, the reader's verification reports 0 errors for every
\* buffer, the first and all later ones.
C25_RandomStaysInStep ==
    (/\ opt_config.pattern_type = PATTERN_RANDOM
     /\ opt_clean
     /\ last_verify.done) =>
        /\ last_verify.errors = 0
        /\ opt_stats.errors = 0

\* C26: verify_pattern returns the number of mismatching words of the
\* buffer, whatever that number is.
C26_FullCountReturned ==
    last_verify.done =>
        last_verify.errors = FullMismatches(opt_config.pattern_type,
                                            last_verify.buffer, opt_words,
                                            last_verify.seed)

\* C33: a write buffer handed out by litepcie_dma_next_write_buffer is
\* completely filled before the DMA thread next runs litepcie_dma_process:
\* no call of litepcie_dma_process happens while the writer is copying.
C33_NoProcessDuringCopy ==
    [][(opt_dma_pc = "loop" /\ opt_dma_pc' = "count") =>
          wr_pc # "copy"]_<<vars, notPcie>>

\* C34: verification runs only with external loopback and verification not
\* switched off; in internal loopback verify_data is 0 when the threads
\* start, verify_pattern is never called and the error counter stays 0
\* whatever is received.
C34_InternalLoopbackNeverVerifies ==
    /\ opt_config.external_loopback = 0 => opt_config.verify_data = 0
    /\ opt_config.external_loopback = 0 =>
          (opt_stats.errors = 0 /\ ~last_verify.done)
    /\ last_verify.done =>
          (opt_config.external_loopback = 1 /\ opt_config.verify_data = 1)

\* In internal loopback a buffer with changed words was received and
\* counted, and the error counter is 0.
C34_Witness ==
    /\ opt_config.external_loopback = 0
    /\ opt_stats.rx_buffers >= 1
    /\ ~opt_clean
    /\ opt_stats.errors = 0

(***************************************************************************)
(* Part 5: litepcie_dma_latency_simple.c, main's measurement loop (lines   *)
(* 377-390) around measure_dma_latency (lines 59-122).  A step is one call *)
(* of litepcie_dma_next_write_buffer or litepcie_dma_next_read_buffer with *)
(* what the code does on its result.  The transport may or may not have a  *)
(* buffer at each call.                                                    *)
(***************************************************************************)
\* Bounds of part 5: the write wait (`timeout < 100`), the read wait
\* (`processed < 10`) and the read buffers the transport ever has.
SimWriteRetries == 2
SimProcessPasses == 2
SimMaxReadBuffers == 3

\* -n iterations.
SimIterations == {1, 2}
\* end - start of a matched measurement, in ns.
SimLatencies == {1}

\* main, lines 349-376, with no warmup: before the measurement loop.
SimInit ==
    /\ sim_iterations \in SimIterations
    /\ sim_keep_running = 1
    /\ sim_pc = "loop"
    /\ sim_i = 0
    /\ sim_timeout = 0
    /\ sim_processed = 0
    /\ sim_latencies = << >>
    /\ sim_wr_acquired = 0
    /\ sim_rd_acquired = 0
    /\ sim_reader_sw_count = 0
    /\ sim_writer_sw_count = 0
    /\ sim_report = [printed |-> FALSE, read |-> {}, stats |-> {}]
    /\ PcieParked
    /\ LatParked
    /\ RepParked
    /\ OptParked
    /\ KerParked
    /\ DrvParked

notSim == <<vars, latVars, repVars, optVars, kerVars, drvVars>>

\* The program's own view of the two software counters: no statement of
\* litepcie_dma_latency_simple.c assigns dma.reader_sw_count or
\* dma.writer_sw_count.
SimCountersKept == UNCHANGED <<sim_reader_sw_count, sim_writer_sw_count>>

\* return of measure_dma_latency into latencies[i] (line 379) and i++.
SimReturn(lat) ==
    /\ sim_latencies' = Append(sim_latencies, lat)
    /\ sim_i' = sim_i + 1
    /\ sim_pc' = "loop"

\* Line 378: i < iterations && keep_running; the call starts with
\* timeout = 0 (line 66).
SimLoop ==
    /\ sim_pc = "loop"
    /\ IF sim_i < sim_iterations /\ sim_keep_running = 1
       THEN sim_pc' = "wait_wr" /\ sim_timeout' = 0
       ELSE sim_pc' = "done" /\ UNCHANGED sim_timeout
    /\ SimCountersKept
    /\ UNCHANGED <<sim_iterations, sim_keep_running, sim_i, sim_processed,
                   sim_latencies, sim_wr_acquired, sim_rd_acquired, sim_report,
                   notSim>>

\* Lines 67-82: one call of litepcie_dma_next_write_buffer in the wait loop.
\* With a buffer the pattern is written into it; without one the loop goes
\* on while timeout is below the limit and then returns UINT64_MAX.
SimWaitWrite(avail) ==
    /\ sim_pc = "wait_wr"
    /\ IF avail
       THEN /\ sim_wr_acquired' = sim_wr_acquired + 1
            /\ sim_pc' = "clear"
            /\ UNCHANGED <<sim_timeout, sim_latencies, sim_i>>
       ELSE IF sim_timeout < SimWriteRetries
            THEN /\ sim_timeout' = sim_timeout + 1
                 /\ UNCHANGED <<sim_pc, sim_wr_acquired, sim_latencies, sim_i>>
            ELSE /\ SimReturn(UINT64_MAX)
                 /\ UNCHANGED <<sim_timeout, sim_wr_acquired>>
    /\ SimCountersKept
    /\ UNCHANGED <<sim_iterations, sim_keep_running, sim_processed,
                   sim_rd_acquired, sim_report,
                   notSim>>

\* Lines 84-86 and 92: one call of litepcie_dma_next_read_buffer in the
\* "clear read buffers" loop; the loop ends at the first NULL and the read
\* wait starts with processed = 0.
SimClear(avail) ==
    /\ sim_pc = "clear"
    /\ IF avail /\ sim_rd_acquired < SimMaxReadBuffers
       THEN /\ sim_rd_acquired' = sim_rd_acquired + 1
            /\ UNCHANGED <<sim_pc, sim_processed>>
       ELSE /\ sim_pc' = "process"
            /\ sim_processed' = 0
            /\ UNCHANGED sim_rd_acquired
    /\ SimCountersKept
    /\ UNCHANGED <<sim_iterations, sim_keep_running, sim_i, sim_timeout,
                   sim_latencies, sim_wr_acquired, sim_report,
                   notSim>>

\* Lines 93-121: one pass of the read wait.  buf: what
\* litepcie_dma_next_read_buffer returned, "none", "match" (the pattern) or
\* "mismatch"; lat: end - start.
SimProcess(buf, lat) ==
    /\ sim_pc = "process"
    /\ IF sim_processed < SimProcessPasses
       THEN /\ sim_processed' = sim_processed + 1
            /\ IF buf = "none" \/ sim_rd_acquired >= SimMaxReadBuffers
               THEN UNCHANGED <<sim_pc, sim_rd_acquired, sim_latencies, sim_i>>
               ELSE /\ sim_rd_acquired' = sim_rd_acquired + 1
                    /\ SimReturn(IF buf = "match" THEN lat ELSE UINT64_MAX)
       ELSE /\ SimReturn(UINT64_MAX)
            /\ UNCHANGED <<sim_processed, sim_rd_acquired>>
    /\ SimCountersKept
    /\ UNCHANGED <<sim_iterations, sim_keep_running, sim_timeout,
                   sim_wr_acquired, sim_report,
                   notSim>>

\* signal_handler, lines 53-56.
SimSignal ==
    /\ sim_keep_running = 1
    /\ sim_pc # "done"
    /\ sim_keep_running' = 0
    /\ SimCountersKept
    /\ UNCHANGED <<sim_iterations, sim_pc, sim_i, sim_timeout, sim_processed,
                   sim_latencies, sim_wr_acquired, sim_rd_acquired, sim_report,
                   notSim>>

\* What malloc may have left in the entries of latencies[] that the loop
\* did not write (line 349: malloc, no initialisation).
SimLeftovers == {0, UINT64_MAX}

\* latencies[0 .. iterations-1] as main passes it on at lines 398 and 402:
\* the entries written by the loop, then the rest of the allocation.
SimArray(rest) == sim_latencies \o rest

\* Lines 396-419 after the loop: with valid > 0, calculate_stats(latencies,
\* iterations, &stats) and print_histogram(latencies, iterations); else the
\* error message.  rest: the content of the entries the loop left unwritten.
SimReport(rest) ==
    /\ sim_pc = "done"
    /\ LET valid == ValidCount(sim_latencies)
           array == SimArray(rest)
       IN  sim_report' = IF valid > 0
                         THEN [printed |-> TRUE,
                               read |-> 0..(Len(array) - 1),
                               stats |-> {CalculateStats(array)}]
                         ELSE [printed |-> TRUE, read |-> {}, stats |-> {}]
    /\ sim_pc' = "reported"
    /\ SimCountersKept
    /\ UNCHANGED <<sim_iterations, sim_keep_running, sim_i, sim_timeout,
                   sim_processed, sim_latencies, sim_wr_acquired,
                   sim_rd_acquired, notSim>>

SimNext ==
    \/ SimLoop
    \/ \E avail \in BOOLEAN : SimWaitWrite(avail)
    \/ \E avail \in BOOLEAN : SimClear(avail)
    \/ \E buf \in {"none", "match", "mismatch"}, lat \in SimLatencies :
          SimProcess(buf, lat)
    \/ SimSignal
    \/ \E rest \in [1..(sim_iterations - sim_i) -> SimLeftovers] :
          SimReport(rest)

SimSpec == SimInit /\ [][SimNext]_<<vars, notPcie>>

(***************************************************************************)
(* Properties of the buffer hand-over.                                     *)
(***************************************************************************)
\* C27: acquisition and commit/release are paired in order: every write
\* buffer obtained is committed (reader_sw_count incremented) exactly once
\* and every read buffer obtained is released (writer_sw_count incremented)
\* exactly once before the next read buffer is acquired, on every path: at
\* most one buffer of each kind is held, and none between two measurements.
C27_AcquireCommitPaired ==
    /\ sim_wr_acquired - sim_reader_sw_count \in {0, 1}
    /\ sim_rd_acquired - sim_writer_sw_count \in {0, 1}
    /\ sim_pc \in {"loop", "done"} =>
          /\ sim_reader_sw_count = sim_wr_acquired
          /\ sim_writer_sw_count = sim_rd_acquired

\* C36: the final statistics of the simple test are computed from the
\* latencies measured in this run only: when the loop was cancelled after
\* k < iterations measurements, calculate_stats and print_histogram read the
\* k entries that were written and no other.
C36_ReportReadsWrittenOnly ==
    sim_report.printed =>
        sim_report.read \subseteq 0..(Len(sim_latencies) - 1)

(***************************************************************************)
(* Part 6: kernel/litepcie_latency.c, litepcie_latency_test (lines         *)
(* 46-116): the ioctl that times writes and read-backs of the scratch      *)
(* register with the interrupts of the CPU disabled.                       *)
(***************************************************************************)
\* Bounds of part 6: the cap on iterations (100000 in the source) and the
\* count that replaces 0 (1000 in the source).
KER_MAX_ITERATIONS == 3
KER_DEFAULT_ITERATIONS == 2

\* Program constants of part 6.
EINVAL == 22
EIO == 5

\* lat->iterations as the caller passes it.
KerRequests == 0..(KER_MAX_ITERATIONS + 2)
\* What the result fields of *lat hold at the call.
KerStale == {0, 9}
\* end_ns - start_ns of one iteration.
KerLatencies == {1, 2}

\* Lines 61-64: the limits on lat->iterations.
ClampIterations(n) ==
    LET capped == IF n > KER_MAX_ITERATIONS THEN KER_MAX_ITERATIONS ELSE n
    IN  IF capped = 0 THEN KER_DEFAULT_ITERATIONS ELSE capped

\* IrqAfterMismatch that returns with the interrupts still disabled.
IrqAfterMismatch_LeftDisabled(flags) == "off"

\* local_irq_restore(flags) on the mismatch path (line 86).
IrqAfterMismatch(flags) == flags

\* The call: the locals of lines 49-51 are initialised, the caller's
\* interrupt state and *lat are whatever they are.
KerInit ==
    /\ ker_pc = "call"
    /\ ker_lat \in [iterations : KerRequests, min_ns : KerStale,
                    max_ns : KerStale, avg_ns : KerStale, total_ns : KerStale]
    /\ ker_irq \in {"on", "off"}
    /\ ker_flags = "none"
    /\ ker_i = 0
    /\ ker_acc = [min_ns |-> UINT64_MAX, max_ns |-> 0, total_ns |-> 0]
    /\ ker_ret = 0
    /\ ker_entry = [lat |-> ker_lat, irq |-> ker_irq]
    /\ PcieParked
    /\ LatParked
    /\ RepParked
    /\ OptParked
    /\ SimParked
    /\ DrvParked

notKer == <<vars, latVars, repVars, optVars, simVars, drvVars>>

\* Lines 56-70: the parameter test, the limits on iterations,
\* local_irq_save and i = 0.  valid: dev and lat are not NULL.
KerEnter(valid) ==
    /\ ker_pc = "call"
    /\ IF valid
       THEN /\ ker_lat' = [ker_lat EXCEPT
                             !.iterations = ClampIterations(@)]
            /\ ker_flags' = ker_irq
            /\ ker_irq' = "off"
            /\ ker_i' = 0
            /\ ker_pc' = "loop"
            /\ UNCHANGED ker_ret
       ELSE /\ ker_ret' = -EINVAL
            /\ ker_pc' = "returned"
            /\ UNCHANGED <<ker_lat, ker_flags, ker_irq, ker_i>>
    /\ UNCHANGED <<ker_acc, ker_entry, notKer>>

\* Lines 70-100: one iteration.  match: the read-back is the value written;
\* latency: end_ns - start_ns.
KerIterate(match, latency) ==
    /\ ker_pc = "loop"
    /\ ker_i < ker_lat.iterations
    /\ IF match
       THEN /\ ker_acc' = [min_ns |-> NewMin(latency, ker_acc.min_ns),
                           max_ns |-> NewMax(latency, ker_acc.max_ns),
                           total_ns |-> ker_acc.total_ns + latency]
            /\ ker_i' = ker_i + 1
            /\ UNCHANGED <<ker_irq, ker_ret, ker_pc>>
       ELSE /\ ker_irq' = IrqAfterMismatch(ker_flags)
            /\ ker_ret' = -EIO
            /\ ker_pc' = "returned"
            /\ UNCHANGED <<ker_acc, ker_i>>
    /\ UNCHANGED <<ker_lat, ker_flags, ker_entry, notKer>>

\* Lines 70 and 102-115: the loop is over; local_irq_restore, the results
\* are stored in *lat, return 0.
KerFinish ==
    /\ ker_pc = "loop"
    /\ ker_i >= ker_lat.iterations
    /\ ker_irq' = ker_flags
    /\ ker_lat' = [ker_lat EXCEPT
                     !.min_ns = ker_acc.min_ns,
                     !.max_ns = ker_acc.max_ns,
                     !.avg_ns = ker_acc.total_ns \div ker_lat.iterations,
                     !.total_ns = ker_acc.total_ns]
    /\ ker_ret' = 0
    /\ ker_pc' = "returned"
    /\ UNCHANGED <<ker_flags, ker_i, ker_acc, ker_entry, notKer>>

KerNext ==
    \/ \E valid \in BOOLEAN : KerEnter(valid)
    \/ \E match \in BOOLEAN, latency \in KerLatencies :
          KerIterate(match, latency)
    \/ KerFinish

KerSpec == KerInit /\ [][KerNext]_<<vars, notPcie>>

(***************************************************************************)
(* Properties of the kernel latency test.                                  *)
(***************************************************************************)
\* The result fields of a struct litepcie_ioctl_latency.
KerResults(lat) == <<lat.min_ns, lat.max_ns, lat.avg_ns, lat.total_ns>>

\* C37: the kernel latency test returns with the interrupt state it was
\* called with on every exit path; once past the parameter test it runs
\* with 1 <= iterations <= the cap for every requested value, 0 becoming the
\* default, and runs that many iterations when no read-back differs; on a
\* data mismatch it returns -EIO and min_ns, max_ns, avg_ns and total_ns of
\* *lat are as they were at the call.
C37_KernelTestExits ==
    /\ ker_pc = "returned" => ker_irq = ker_entry.irq
    /\ (ker_pc # "call" /\ ker_ret # -EINVAL) =>
          /\ ker_lat.iterations \in 1..KER_MAX_ITERATIONS
          /\ ker_entry.lat.iterations = 0 =>
                ker_lat.iterations = KER_DEFAULT_ITERATIONS
          /\ ker_entry.lat.iterations \in 1..KER_MAX_ITERATIONS =>
                ker_lat.iterations = ker_entry.lat.iterations
          /\ ker_i <= ker_lat.iterations
    /\ (ker_pc = "returned" /\ ker_ret = 0) => ker_i = ker_lat.iterations
    /\ (ker_pc = "returned" /\ ker_ret = -EIO) =>
          KerResults(ker_lat) = KerResults(ker_entry.lat)

\* A call with iterations = 0 and the interrupts enabled returned -EIO
\* after one good iteration, with the interrupts enabled again.
C37_Witness ==
    /\ ker_pc = "returned"
    /\ ker_ret = -EIO
    /\ ker_entry.lat.iterations = 0
    /\ ker_entry.irq = "on"
    /\ ker_irq = "on"
    /\ ker_i = 1

(***************************************************************************)
(* Part 7: macos_driverkit_sample/LitePCIeDriver.cpp, InterruptOccurred    *)
(* and HandleDMAInterrupt (lines 289-333): the interrupt handler of the    *)
(* DriverKit driver and its two index loops.                               *)
(***************************************************************************)
\* Bounds of part 7: the ring length (256 in the source), the buffer size
\* (8192 in the source) and the range of the uint64_t counters (2^64 in the
\* source).
DMA_BUFFER_COUNT == 3
DMA_BUFFER_SIZE == 2
DrvCounterMod == 4

\* What ReadRegister returns for an index register: the raw 32-bit value
\* (lines 335-343), in the ring and past it.
DrvRegisterValues == 0..(DMA_BUFFER_COUNT + 1)
\* The channels whose bit is set in the interrupt status register.
DrvStatuses == SUBSET {0, 1}

\* uint64_t addition.
CounterAdd(c, n) == (c + n) % DrvCounterMod

\* init: memset(ivars, 0, sizeof(ClassData)) (line 67); no interrupt is
\* being handled.
DrvInit ==
    /\ drv_pc = "idle"
    /\ drv_status = {}
    /\ sw_reader_idx = 0
    /\ hw_writer_idx = 0
    /\ sw_writer_idx = 0
    /\ hw_reader_idx = 0
    /\ counters = [rxBytes |-> 0, txBytes |-> 0, rxPackets |-> 0,
                   txPackets |-> 0]
    /\ PcieParked
    /\ LatParked
    /\ RepParked
    /\ OptParked
    /\ SimParked
    /\ KerParked

notDrv == <<vars, latVars, repVars, optVars, simVars, kerVars>>

\* Lines 289-291: an interrupt arrives and the status register is read.
InterruptOccurred(status) ==
    /\ drv_pc = "idle"
    /\ drv_status' = status
    /\ drv_pc' = "dma0"
    /\ UNCHANGED <<sw_reader_idx, hw_writer_idx, sw_writer_idx,
                   hw_reader_idx, counters, notDrv>>

\* Lines 293-295 and 309-310: HandleDMAInterrupt(0) is called when the bit
\* of channel 0 is set, and reads the hardware writer index.
HandleDMAInterrupt0(reg) ==
    /\ drv_pc = "dma0"
    /\ IF 0 \in drv_status
       THEN /\ hw_writer_idx' = reg
            /\ drv_pc' = "loop0"
       ELSE /\ drv_pc' = "dma1"
            /\ UNCHANGED hw_writer_idx
    /\ UNCHANGED <<drv_status, sw_reader_idx, sw_writer_idx, hw_reader_idx,
                   counters, notDrv>>

\* Lines 312-321: one test of the receive loop, and its body or the exit.
ReceiveLoop ==
    /\ drv_pc = "loop0"
    /\ IF sw_reader_idx # hw_writer_idx
       THEN /\ counters' = [counters EXCEPT
                              !.rxPackets = CounterAdd(@, 1),
                              !.rxBytes = CounterAdd(@, DMA_BUFFER_SIZE)]
            /\ sw_reader_idx' = (sw_reader_idx + 1) % DMA_BUFFER_COUNT
            /\ UNCHANGED drv_pc
       ELSE /\ drv_pc' = "dma1"
            /\ UNCHANGED <<counters, sw_reader_idx>>
    /\ UNCHANGED <<drv_status, hw_writer_idx, sw_writer_idx, hw_reader_idx,
                   notDrv>>

\* Lines 297-299 and 322-323: HandleDMAInterrupt(1) is called when the bit
\* of channel 1 is set, and reads the hardware reader index.
HandleDMAInterrupt1(reg) ==
    /\ drv_pc = "dma1"
    /\ IF 1 \in drv_status
       THEN /\ hw_reader_idx' = reg
            /\ drv_pc' = "loop1"
       ELSE /\ drv_pc' = "clear"
            /\ UNCHANGED hw_reader_idx
    /\ UNCHANGED <<drv_status, sw_reader_idx, hw_writer_idx, sw_writer_idx,
                   counters, notDrv>>

\* Lines 325-331: one test of the transmit loop, and its body or the exit.
TransmitLoop ==
    /\ drv_pc = "loop1"
    /\ IF sw_writer_idx # hw_reader_idx
       THEN /\ counters' = [counters EXCEPT
                              !.txPackets = CounterAdd(@, 1),
                              !.txBytes = CounterAdd(@, DMA_BUFFER_SIZE)]
            /\ sw_writer_idx' = (sw_writer_idx + 1) % DMA_BUFFER_COUNT
            /\ UNCHANGED drv_pc
       ELSE /\ drv_pc' = "clear"
            /\ UNCHANGED <<counters, sw_writer_idx>>
    /\ UNCHANGED <<drv_status, sw_reader_idx, hw_writer_idx, hw_reader_idx,
                   notDrv>>

\* Lines 301-303: the interrupts are cleared and the handler returns.
ClearInterrupts ==
    /\ drv_pc = "clear"
    /\ drv_status' = {}
    /\ drv_pc' = "idle"
    /\ UNCHANGED <<sw_reader_idx, hw_writer_idx, sw_writer_idx,
                   hw_reader_idx, counters, notDrv>>

\* The steps of a handler that was entered: the CPU goes on executing it.
DrvHandlerStep ==
    \/ \E reg \in DrvRegisterValues : HandleDMAInterrupt0(reg)
    \/ ReceiveLoop
    \/ \E reg \in DrvRegisterValues : HandleDMAInterrupt1(reg)
    \/ TransmitLoop
    \/ ClearInterrupts

DrvNext ==
    \/ \E status \in DrvStatuses : InterruptOccurred(status)
    \/ \E reg \in DrvRegisterValues : HandleDMAInterrupt0(reg)
    \/ ReceiveLoop
    \/ \E reg \in DrvRegisterValues : HandleDMAInterrupt1(reg)
    \/ TransmitLoop
    \/ ClearInterrupts

DrvSpec == DrvInit /\ [][DrvNext]_<<vars, notPcie>>

\* An interrupt handler that was entered keeps running; no interrupt has to
\* arrive.
DrvFairSpec == DrvSpec /\ WF_<<vars, notPcie>>(DrvHandlerStep)

(***************************************************************************)
(* Properties of the interrupt handler.                                    *)
(***************************************************************************)
\* C38: HandleDMAInterrupt terminates for every value read from the
\* hardware index register: each of the two loops that advance the software
\* index modulo DMA_BUFFER_COUNT ends, and each pass of a loop adds one
\* packet and DMA_BUFFER_SIZE bytes to the counters of its channel.
C38_HandlerTerminates ==
    /\ (drv_pc = "loop0") ~> (drv_pc = "dma1")
    /\ (drv_pc = "loop1") ~> (drv_pc = "clear")
    /\ [][/\ sw_reader_idx' # sw_reader_idx =>
               counters' = [counters EXCEPT
                              !.rxPackets = CounterAdd(@, 1),
                              !.rxBytes = CounterAdd(@, DMA_BUFFER_SIZE)]
          /\ sw_writer_idx' # sw_writer_idx =>
               counters' = [counters EXCEPT
                              !.txPackets = CounterAdd(@, 1),
                              !.txBytes = CounterAdd(@, DMA_BUFFER_SIZE)]
         ]_<<vars, notPcie>>

=============================================================================
